---- MODULE Spec2Model ----
(***************************************************************************)
(* ShelfCam alert engine: AlertService (app/services/alert_service.py)     *)
(* and the alert routes that call it (app/api/routes/alerts.py).           *)
(*                                                                         *)
(* Text is modelled as a sequence of fragments (each fragment a piece of   *)
(* text that is never split): lower-casing maps fragments, `in` / LIKE /   *)
(* ILIKE are sub-sequence containment, f-strings are concatenation.        *)
(* A SQL NULL / Python None is NullStr for text, NullNum for numbers,      *)
(* NoStaff for an employee id, FALSE for a timestamp (TRUE = set).         *)
(* created_at / updated_at and the history notes are not modelled.         *)
(***************************************************************************)
EXTENDS Integers, Sequences, FiniteSets, TLC

VARIABLES
    alerts,     \* committed rows of table alerts; alerts[i].id = i
    history,    \* committed rows of table alert_history, in insertion order
    sess,       \* concurrent ingestion sessions (SpecConc): position, snapshot, lookup result
    assignment  \* active rows of table staff_assignments: employee_id -> shelf_id

vars == <<alerts, history, sess, assignment>>

\* ------------------------------------------------------------------ bounds

MaxAlerts == 3
MaxHistory == 4
\* history rows after which SpecFill ingests no further snapshot
MaxFillHistory == 2

\* ------------------------------------------------------------------ text

NullStr == <<"<NULL>">>
NullNum == -1
NoStaff == "<none>"

\* An element of items_detected that is a JSON number, not a string.
NonStr == <<"<int>">>

IsStr(x) == x # NonStr

\* bool(x) of Python for a list element: the empty string is falsy.
Truthy(x) == x # <<>>

LowerFrag(f) ==
    CASE f = "Hammer" -> "hammer"
      [] f = "HAMMER" -> "hammer"
      [] f = "Banana" -> "banana"
      [] f = "Apple" -> "apple"
      [] f = " Box" -> " box"
      [] f = "Organic " -> "organic "
      [] f = " Set" -> " set"
      [] f = "MISSING ITEMS" -> "missing items"
      [] OTHER -> f

\* str.lower()
Lower(s) == [i \in 1..Len(s) |-> LowerFrag(s[i])]

\* needle in hay  (also SQL LIKE '%needle%')
Contains(hay, needle) ==
    \E k \in 0..(Len(hay) - Len(needle)) : SubSeq(hay, k + 1, k + Len(needle)) = needle

\* the LIKE wildcard that matches any run of characters
Wildcard == "%"

RECURSIVE SplitLike(_)
\* the literal pieces of a LIKE pattern, cut at its wildcards
SplitLike(pattern) ==
    IF pattern = <<>> THEN << <<>> >>
    ELSE LET r == SplitLike(Tail(pattern))
         IN IF Head(pattern) = Wildcard THEN << <<>> >> \o r
            ELSE << <<Head(pattern)>> \o r[1] >> \o Tail(r)

RECURSIVE LikePieces(_, _)
\* LIKE '%p1%p2%...%': the pieces occur in hay in this order, without overlap
LikePieces(hay, pieces) ==
    IF pieces = <<>> THEN TRUE
    ELSE \E k \in 0..(Len(hay) - Len(pieces[1])) :
            /\ SubSeq(hay, k + 1, k + Len(pieces[1])) = pieces[1]
            /\ LikePieces(SubSeq(hay, k + Len(pieces[1]) + 1, Len(hay)), Tail(pieces))

\* SQL ILIKE '%needle%' with the needle pasted into the pattern as it is: a
\* wildcard inside the needle is a wildcard of the pattern
IContains(hay, needle) == LikePieces(Lower(hay), SplitLike(Lower(needle)))

RECURSIVE Join(_, _)
\* sep.join(strs)
Join(sep, strs) ==
    IF strs = <<>> THEN <<>>
    ELSE IF Len(strs) = 1 THEN strs[1]
    ELSE strs[1] \o sep \o Join(sep, Tail(strs))

Marker == <<"MISSING ITEMS">>

\* ------------------------------------------------------------------ catalog

A1 == <<"A1">>
B2 == <<"B2">>
Z9 == <<"Z9">>

\* rows of table shelves (Shelf.name)
Shelves == {A1, B2}

\* rows of table inventory, in the order the queries return them
Inventory == <<
    [shelf_name |-> A1, product_name |-> <<"Organic ", "Banana", "s">>, category |-> <<"Produce">>],
    [shelf_name |-> A1, product_name |-> <<"Apple", "s">>, category |-> <<"Produce">>],
    [shelf_name |-> B2, product_name |-> <<"Hammer", " Set">>, category |-> <<"Tools">>] >>

\* rows of table employees
Employees == {"E1"}

\* an employee without an active row in staff_assignments
NoShelf == <<"<none>">>

\* query(StaffAssignment).filter(shelf_id == shelf, is_active).first(): the
\* employee_id of the active row of the shelf, or None. /assign gives an
\* employee at most one active row, and the catalog has one staff member.
StaffAssignment(shelf) ==
    LET m == {e \in Employees : assignment[e] = shelf}
    IN IF m = {} THEN NoStaff ELSE CHOOSE e \in m : TRUE

SelectSeq2(s, Test(_)) == SelectSeq(s, Test)

\* db.query(Inventory).filter(Inventory.shelf_name == shelf_number).all()
InventoryFor(shelf) == SelectSeq2(Inventory, LAMBDA it : it.shelf_name = shelf)

\* ------------------------------------------------------------------ enums

LOW_STOCK == "low_stock"
MEDIUM_STOCK == "medium_stock"
HIGH_STOCK == "high_stock"
CRITICAL_STOCK == "critical_stock"
OUT_OF_STOCK == "out_of_stock"
MISPLACED_ITEM == "misplaced_item"

StockTypes == {LOW_STOCK, MEDIUM_STOCK, HIGH_STOCK, CRITICAL_STOCK, OUT_OF_STOCK}

ACTIVE == "active"
ACKNOWLEDGED == "acknowledged"
RESOLVED == "resolved"
PENDING == "pending"

P_LOW == "low"
P_MEDIUM == "medium"
P_HIGH == "high"
P_CRITICAL == "critical"

NoType == "<none>"

\* ------------------------------------------------------------------ thresholds

ThresholdCritical == 10
ThresholdHigh == 25
ThresholdMedium == 50
ThresholdLow == 75

\* mutant of Classify: a fill equal to a cut point falls in the more severe tier
ClassifyInclusive(fill) ==
    IF fill <= ThresholdCritical
    THEN [alert_type |-> IF fill > 0 THEN CRITICAL_STOCK ELSE OUT_OF_STOCK,
          priority |-> P_CRITICAL]
    ELSE IF fill <= ThresholdHigh THEN [alert_type |-> HIGH_STOCK, priority |-> P_HIGH]
    ELSE IF fill <= ThresholdMedium THEN [alert_type |-> MEDIUM_STOCK, priority |-> P_MEDIUM]
    ELSE IF fill <= ThresholdLow THEN [alert_type |-> LOW_STOCK, priority |-> P_LOW]
    ELSE [alert_type |-> NoType, priority |-> NoType]

\* _check_stock_levels, lines 115-130: (alert_type, priority) of a fill percentage
Classify(fill) ==
    IF fill < ThresholdCritical
    THEN [alert_type |-> IF fill > 0 THEN CRITICAL_STOCK ELSE OUT_OF_STOCK,
          priority |-> P_CRITICAL]
    ELSE IF fill < ThresholdHigh THEN [alert_type |-> HIGH_STOCK, priority |-> P_HIGH]
    ELSE IF fill < ThresholdMedium THEN [alert_type |-> MEDIUM_STOCK, priority |-> P_MEDIUM]
    ELSE IF fill < ThresholdLow THEN [alert_type |-> LOW_STOCK, priority |-> P_LOW]
    ELSE [alert_type |-> NoType, priority |-> NoType]

\* ------------------------------------------------------------------ store

\* F(v) with v evaluated once (a local variable of the code)
Bind(v, F(_)) == CHOOSE y \in {F(x) : x \in {v}} : TRUE

\* .first() of a query without ORDER BY: the database may return any matching
\* row; pick chooses which ("lo": lowest id, "hi": highest id). 0 = None.
First(ids, pick) ==
    IF ids = {} THEN 0
    ELSE IF pick = "lo" THEN CHOOSE i \in ids : \A j \in ids : i <= j
    ELSE CHOOSE i \in ids : \A j \in ids : i >= j

Picks == {"lo", "hi"}

\* Alert(...); db.add(alert); db.flush(): the row gets the next id
AddAlert(db, fields) ==
    [db EXCEPT !.alerts = Append(@, [fields EXCEPT !.id = Len(db.alerts) + 1])]

\* defaults of the columns of Alert
AlertDefaults ==
    [id |-> 0, alert_type |-> NoType, status |-> ACTIVE, priority |-> NoType,
     shelf_name |-> NullStr, rack_name |-> NullStr, product_number |-> NullStr,
     product_name |-> NullStr, category |-> NullStr, title |-> NullStr,
     message |-> NullStr, expected_product |-> NullStr, actual_product |-> NullStr,
     correct_location |-> NullStr, empty_percentage |-> NullNum,
     fill_percentage |-> NullNum, assigned_staff_id |-> NoStaff,
     created_by |-> NullStr, acknowledged_at |-> FALSE, resolved_at |-> FALSE]

\* mutant of log_alert_action: an in-place update writes no history row
log_alert_action_skips_update(db, alert_id, action, employee_id) ==
    IF action = "updated" THEN db
    ELSE [db EXCEPT !.history =
            Append(@, [alert_id |-> alert_id, action |-> action, performed_by |-> employee_id])]

\* mutant of log_alert_action: the alert keeps one history row, rewritten in place
log_alert_action_rewrites(db, alert_id, action, employee_id) ==
    LET row == [alert_id |-> alert_id, action |-> action, performed_by |-> employee_id]
        own == {k \in 1..Len(db.history) : db.history[k].alert_id = alert_id}
    IN IF own = {} THEN [db EXCEPT !.history = Append(@, row)]
       ELSE [db EXCEPT !.history[CHOOSE k \in own : TRUE] = row]

\* _log_alert_action: one AlertHistory row added to the session
log_alert_action(db, alert_id, action, employee_id) ==
    [db EXCEPT !.history =
        Append(@, [alert_id |-> alert_id, action |-> action, performed_by |-> employee_id])]

\* _get_assigned_staff_id
get_assigned_staff_id(shelf_name) == StaffAssignment(shelf_name)

\* mutant of ActiveStockAlerts: the filter does not look at the alert type
ActiveStockAlertsAnyType(rows, shelf_name) ==
    {i \in 1..Len(rows) :
        /\ rows[i].shelf_name = shelf_name
        /\ rows[i].rack_name = NullStr
        /\ rows[i].status = ACTIVE}

\* mutant of ActiveStockAlerts: the filter does not look at the shelf
ActiveStockAlertsAnyShelf(rows, shelf_name) ==
    {i \in 1..Len(rows) :
        /\ rows[i].rack_name = NullStr
        /\ rows[i].status = ACTIVE
        /\ rows[i].alert_type \in StockTypes}

\* the filter shared by _check_stock_levels and _resolve_existing_stock_alerts:
\* shelf_name, rack_name IS NULL, status ACTIVE, alert_type in the stock tiers
ActiveStockAlerts(rows, shelf_name) ==
    {i \in 1..Len(rows) :
        /\ rows[i].shelf_name = shelf_name
        /\ rows[i].rack_name = NullStr
        /\ rows[i].status = ACTIVE
        /\ rows[i].alert_type \in StockTypes}

\* mutant of auto_resolve: resolved_at is left unset
auto_resolve_no_timestamp(db, i) ==
    log_alert_action([db EXCEPT !.alerts[i].status = RESOLVED], i, "auto_resolved", NoStaff)

\* mutant of auto_resolve: the auto_resolved record is written twice
auto_resolve_logs_twice(db, i) ==
    log_alert_action(
        log_alert_action([db EXCEPT !.alerts[i].status = RESOLVED,
                                    !.alerts[i].resolved_at = TRUE],
                         i, "auto_resolved", NoStaff),
        i, "auto_resolved", NoStaff)

\* _resolve_existing_stock_alerts, lines 466-471: the body of the loop
auto_resolve(db, i) ==
    log_alert_action([db EXCEPT !.alerts[i].status = RESOLVED, !.alerts[i].resolved_at = TRUE],
                     i, "auto_resolved", NoStaff)

RECURSIVE ResolveAll(_, _)
ResolveAll(db, ids) ==
    IF ids = {} THEN db
    ELSE LET i == CHOOSE x \in ids : \A y \in ids : x <= y
         IN ResolveAll(auto_resolve(db, i), ids \ {i})

\* _resolve_existing_stock_alerts, the update loop over the rows found
resolve_existing_stock_alerts(db, found) == ResolveAll(db, found)

\* ------------------------------------------------------------------ stock path

\* priority_emoji.get(priority, ...)
PriorityEmoji(priority) ==
    CASE priority = P_CRITICAL -> "(siren)" [] priority = P_HIGH -> "(red)"
      [] priority = P_MEDIUM -> "(yellow)" [] priority = P_LOW -> "(green)"
      [] OTHER -> "(loudspeaker)"

UpperFrag(f) ==
    CASE f = P_LOW -> "LOW" [] f = P_MEDIUM -> "MEDIUM" [] f = P_HIGH -> "HIGH"
      [] f = P_CRITICAL -> "CRITICAL" [] OTHER -> f

StockTitle(cls, shelf_name) ==
    IF cls.alert_type = OUT_OF_STOCK
    THEN <<PriorityEmoji(cls.priority), " OUT OF STOCK: Shelf ">> \o shelf_name
    ELSE <<PriorityEmoji(cls.priority), " ", UpperFrag(cls.priority), " STOCK: Shelf ">>
            \o shelf_name

StockMessage(cls, shelf_name, fill) ==
    IF cls.alert_type = OUT_OF_STOCK
    THEN <<"URGENT: Shelf ">> \o shelf_name
            \o <<" is completely empty (0% filled). Immediate restocking required!">>
    ELSE <<"Shelf ">> \o shelf_name
            \o <<" has ", cls.priority, " stock levels. Current fill: ", ToString(fill), ".0%">>

RECURSIVE Distinct(_)
Distinct(s) ==
    IF s = <<>> THEN <<>>
    ELSE LET r == Distinct(SubSeq(s, 1, Len(s) - 1))
             x == s[Len(s)]
         IN IF \E i \in 1..Len(r) : r[i] = x THEN r ELSE Append(r, x)

\* categories = list(set(item.category ...)); ", ".join(categories) or "Mixed"
CategoryText(inventory_items) ==
    LET cats == Distinct([i \in 1..Len(inventory_items) |-> inventory_items[i].category])
    IN IF cats = <<>> THEN <<"Mixed">> ELSE Join(<<", ">>, cats)

\* mutant of check_stock_levels_write: the in-place update refreshes the assignee
check_stock_levels_write_reassigns(db, shelf_name, fill, empty, inventory_items, found) ==
    LET cls == Classify(fill) IN
    IF cls.alert_type = NoType
    THEN [db |-> resolve_existing_stock_alerts(db, found), ret |-> 0]
    ELSE IF found # {}
    THEN LET e == CHOOSE i \in found : TRUE
             d1 == [db EXCEPT !.alerts[e] =
                        [@ EXCEPT !.alert_type = cls.alert_type,
                                  !.priority = cls.priority,
                                  !.title = StockTitle(cls, shelf_name),
                                  !.message = StockMessage(cls, shelf_name, fill),
                                  !.empty_percentage = empty,
                                  !.fill_percentage = fill,
                                  !.category = CategoryText(inventory_items),
                                  !.assigned_staff_id = get_assigned_staff_id(shelf_name)]]
         IN [db |-> log_alert_action(d1, e, "updated", NoStaff), ret |-> e]
    ELSE LET d1 == AddAlert(db,
                     [AlertDefaults EXCEPT
                        !.alert_type = cls.alert_type,
                        !.priority = cls.priority,
                        !.status = ACTIVE,
                        !.shelf_name = shelf_name,
                        !.category = CategoryText(inventory_items),
                        !.title = StockTitle(cls, shelf_name),
                        !.message = StockMessage(cls, shelf_name, fill),
                        !.empty_percentage = empty,
                        !.fill_percentage = fill,
                        !.assigned_staff_id = get_assigned_staff_id(shelf_name),
                        !.created_by = <<"system">>])
             n == Len(d1.alerts)
         IN [db |-> log_alert_action(d1, n, "created", NoStaff), ret |-> n]

\* mutant of check_stock_levels_write: the in-place update keeps the old priority
check_stock_levels_write_keeps_priority(db, shelf_name, fill, empty, inventory_items, found) ==
    LET cls == Classify(fill) IN
    IF cls.alert_type = NoType
    THEN [db |-> resolve_existing_stock_alerts(db, found), ret |-> 0]
    ELSE IF found # {}
    THEN LET e == CHOOSE i \in found : TRUE
             d1 == [db EXCEPT !.alerts[e] =
                        [@ EXCEPT !.alert_type = cls.alert_type,
                                  !.title = StockTitle(cls, shelf_name),
                                  !.message = StockMessage(cls, shelf_name, fill),
                                  !.empty_percentage = empty,
                                  !.fill_percentage = fill,
                                  !.category = CategoryText(inventory_items)]]
         IN [db |-> log_alert_action(d1, e, "updated", NoStaff), ret |-> e]
    ELSE LET d1 == AddAlert(db,
                     [AlertDefaults EXCEPT
                        !.alert_type = cls.alert_type,
                        !.priority = cls.priority,
                        !.status = ACTIVE,
                        !.shelf_name = shelf_name,
                        !.category = CategoryText(inventory_items),
                        !.title = StockTitle(cls, shelf_name),
                        !.message = StockMessage(cls, shelf_name, fill),
                        !.empty_percentage = empty,
                        !.fill_percentage = fill,
                        !.assigned_staff_id = get_assigned_staff_id(shelf_name),
                        !.created_by = <<"system">>])
             n == Len(d1.alerts)
         IN [db |-> log_alert_action(d1, n, "created", NoStaff), ret |-> n]

\* _check_stock_levels after its lookups: found is the set of rows the lookup
\* returned (the one existing ACTIVE stock alert, or every one to auto-resolve).
\* Returns the session's rows and the alert returned (0 = None).
check_stock_levels_write(db, shelf_name, fill, empty, inventory_items, found) ==
    LET cls == Classify(fill) IN
    IF cls.alert_type = NoType
    THEN [db |-> resolve_existing_stock_alerts(db, found), ret |-> 0]
    ELSE IF found # {}
    THEN LET e == CHOOSE i \in found : TRUE
             d1 == [db EXCEPT !.alerts[e] =
                        [@ EXCEPT !.alert_type = cls.alert_type,
                                  !.priority = cls.priority,
                                  !.title = StockTitle(cls, shelf_name),
                                  !.message = StockMessage(cls, shelf_name, fill),
                                  !.empty_percentage = empty,
                                  !.fill_percentage = fill,
                                  !.category = CategoryText(inventory_items)]]
         IN [db |-> log_alert_action(d1, e, "updated", NoStaff), ret |-> e]
    ELSE LET d1 == AddAlert(db,
                     [AlertDefaults EXCEPT
                        !.alert_type = cls.alert_type,
                        !.priority = cls.priority,
                        !.status = ACTIVE,
                        !.shelf_name = shelf_name,
                        !.category = CategoryText(inventory_items),
                        !.title = StockTitle(cls, shelf_name),
                        !.message = StockMessage(cls, shelf_name, fill),
                        !.empty_percentage = empty,
                        !.fill_percentage = fill,
                        !.assigned_staff_id = get_assigned_staff_id(shelf_name),
                        !.created_by = <<"system">>])
             n == Len(d1.alerts)
         IN [db |-> log_alert_action(d1, n, "created", NoStaff), ret |-> n]

\* mutant of StockLookup: the update-or-create lookup filters on the wrong status
StockLookupWrongStatus(rows, shelf_name, fill, pick) ==
    IF Classify(fill).alert_type = NoType THEN ActiveStockAlerts(rows, shelf_name)
    ELSE LET m == {i \in 1..Len(rows) :
                      /\ rows[i].shelf_name = shelf_name
                      /\ rows[i].rack_name = NullStr
                      /\ rows[i].status = ACKNOWLEDGED
                      /\ rows[i].alert_type \in StockTypes}
         IN IF m = {} THEN {} ELSE {First(m, pick)}

\* mutant of StockLookup: both lookups also return ACKNOWLEDGED stock alerts
StockLookupUnresolved(rows, shelf_name, fill, pick) ==
    LET m == {i \in 1..Len(rows) :
                 /\ rows[i].shelf_name = shelf_name
                 /\ rows[i].rack_name = NullStr
                 /\ rows[i].status \in {ACTIVE, ACKNOWLEDGED}
                 /\ rows[i].alert_type \in StockTypes}
    IN IF Classify(fill).alert_type = NoType THEN m
       ELSE IF m = {} THEN {} ELSE {First(m, pick)}

\* the lookup of _check_stock_levels: .all() of the ACTIVE stock alerts when the
\* fill classifies to no alert (line 454), else .first() of them (line 159)
StockLookup(rows, shelf_name, fill, pick) ==
    LET m == ActiveStockAlerts(rows, shelf_name) IN
    IF Classify(fill).alert_type = NoType THEN m
    ELSE IF m = {} THEN {} ELSE {First(m, pick)}

\* _check_stock_levels
check_stock_levels(db, shelf_name, fill, empty, inventory_items, pick) ==
    check_stock_levels_write(db, shelf_name, fill, empty, inventory_items,
                             StockLookup(db.alerts, shelf_name, fill, pick))

\* ------------------------------------------------------------------ misplacement path

\* _find_correct_location: ILIKE '%item%' over the whole inventory, first row's shelf
find_correct_location(item_name) ==
    LET m == SelectSeq2(Inventory, LAMBDA it : IContains(it.product_name, item_name))
    IN IF m = <<>> THEN NullStr ELSE m[1].shelf_name

\* inventory_items[:n] product names
Names(items, n) ==
    [i \in 1..(IF Len(items) < n THEN Len(items) ELSE n) |-> items[i].product_name]

MisplacedTitle(shelf_name, detected_item) ==
    <<"(arrows) MISPLACED: ">> \o detected_item \o <<" on Shelf ">> \o shelf_name

MisplacedMessage(shelf_name, detected_item, inventory_items, correct_location) ==
    <<"Wrong item '">> \o detected_item \o <<"' found on shelf ">> \o shelf_name \o <<".">>
    \o (IF inventory_items # <<>>
        THEN <<" Expected items: ">> \o Join(<<", ">>, Names(inventory_items, 3))
             \o (IF Len(inventory_items) > 3
                 THEN <<" (and ", ToString(Len(inventory_items) - 3), " more)">>
                 ELSE <<>>)
        ELSE <<>>)
    \o (IF correct_location # NullStr
        THEN <<" | Correct location: ">> \o correct_location
        ELSE <<>>)

\* mutant of ActiveMisplacementAlerts: the label is lower-cased before the comparison
ActiveMisplacementAlertsLowered(rows, shelf_name, detected_item) ==
    {i \in 1..Len(rows) :
        /\ rows[i].shelf_name = shelf_name
        /\ rows[i].alert_type = MISPLACED_ITEM
        /\ rows[i].actual_product = Lower(detected_item)
        /\ rows[i].status = ACTIVE}

\* the lookup of _create_misplacement_alert (lines 293-300)
ActiveMisplacementAlerts(rows, shelf_name, detected_item) ==
    {i \in 1..Len(rows) :
        /\ rows[i].shelf_name = shelf_name
        /\ rows[i].alert_type = MISPLACED_ITEM
        /\ rows[i].actual_product = detected_item
        /\ rows[i].status = ACTIVE}

\* _create_misplacement_alert
create_misplacement_alert(db, shelf_name, detected_item, inventory_items, pick) ==
    LET correct_location == find_correct_location(detected_item)
        title == MisplacedTitle(shelf_name, detected_item)
        message == MisplacedMessage(shelf_name, detected_item, inventory_items, correct_location)
        e == First(ActiveMisplacementAlerts(db.alerts, shelf_name, detected_item), pick)
    IN IF e # 0
       THEN LET d1 == [db EXCEPT !.alerts[e] =
                          [@ EXCEPT !.title = title,
                                    !.message = message,
                                    !.correct_location = correct_location]]
            IN [db |-> log_alert_action(d1, e, "updated", NoStaff), ret |-> e]
       ELSE LET d1 == AddAlert(db,
                        [AlertDefaults EXCEPT
                           !.alert_type = MISPLACED_ITEM,
                           !.priority = P_MEDIUM,
                           !.status = ACTIVE,
                           !.shelf_name = shelf_name,
                           !.category = IF inventory_items # <<>>
                                        THEN inventory_items[1].category ELSE NullStr,
                           !.title = title,
                           !.message = message,
                           !.expected_product = IF inventory_items # <<>>
                                                THEN inventory_items[1].product_name
                                                ELSE NullStr,
                           !.actual_product = detected_item,
                           !.correct_location = correct_location,
                           !.assigned_staff_id = get_assigned_staff_id(shelf_name),
                           !.created_by = <<"system">>])
                n == Len(d1.alerts)
            IN [db |-> log_alert_action(d1, n, "created", NoStaff), ret |-> n]

MissingTitle(shelf_name) == <<"(cross) ">> \o Marker \o <<": Shelf ">> \o shelf_name

MissingMessage(shelf_name, missing_items) ==
    <<"Expected items not detected on shelf ">> \o shelf_name \o <<": ">>
    \o Join(<<", ">>, SubSeq(missing_items, 1, IF Len(missing_items) < 5
                                                THEN Len(missing_items) ELSE 5))
    \o (IF Len(missing_items) > 5
        THEN <<" (and ", ToString(Len(missing_items) - 5), " more)">>
        ELSE <<>>)

\* the lookup of _create_missing_items_alert (lines 356-363)
ActiveMissingAlerts(rows, shelf_name) ==
    {i \in 1..Len(rows) :
        /\ rows[i].shelf_name = shelf_name
        /\ rows[i].alert_type = MISPLACED_ITEM
        /\ Contains(rows[i].title, Marker)
        /\ rows[i].status = ACTIVE}

\* _create_missing_items_alert
create_missing_items_alert(db, shelf_name, missing_items, pick) ==
    IF missing_items = <<>> THEN [db |-> db, ret |-> 0]
    ELSE
    LET title == MissingTitle(shelf_name)
        message == MissingMessage(shelf_name, missing_items)
        e == First(ActiveMissingAlerts(db.alerts, shelf_name), pick)
    IN IF e # 0
       THEN LET d1 == [db EXCEPT !.alerts[e] = [@ EXCEPT !.title = title, !.message = message]]
            IN [db |-> log_alert_action(d1, e, "updated", NoStaff), ret |-> e]
       ELSE LET d1 == AddAlert(db,
                        [AlertDefaults EXCEPT
                           !.alert_type = MISPLACED_ITEM,
                           !.priority = P_LOW,
                           !.status = ACTIVE,
                           !.shelf_name = shelf_name,
                           !.title = title,
                           !.message = message,
                           !.expected_product = Join(<<", ">>, missing_items),
                           !.assigned_staff_id = get_assigned_staff_id(shelf_name),
                           !.created_by = <<"system">>])
                n == Len(d1.alerts)
            IN [db |-> log_alert_action(d1, n, "created", NoStaff), ret |-> n]

\* mutant of IsExpected: a label that contains an expected name does not match
IsExpectedOneWay(detected_item, inventory_items) ==
    LET d == Lower(detected_item) IN
    \E i \in 1..Len(inventory_items) :
        LET expected == Lower(inventory_items[i].product_name) IN
        \/ Contains(expected, d)
        \/ d = expected

\* lines 238-243: the detected label matches some expected item name
IsExpected(detected_item, inventory_items) ==
    LET d == Lower(detected_item) IN
    \E i \in 1..Len(inventory_items) :
        LET expected == Lower(inventory_items[i].product_name) IN
        \/ Contains(expected, d)
        \/ Contains(d, expected)
        \/ d = expected

RECURSIVE MisplacedLoop(_, _, _, _, _, _)
\* lines 231-251: the loop over items_detected, from position k; st carries the
\* session's rows, the alerts collected so far and whether an exception escaped
MisplacedLoop(st, shelf_name, items_detected, inventory_items, k, pick) ==
    IF k > Len(items_detected) THEN st
    ELSE LET detected_item == items_detected[k] IN
         IF ~Truthy(detected_item)
         THEN MisplacedLoop(st, shelf_name, items_detected, inventory_items, k + 1, pick)
         ELSE IF ~IsStr(detected_item)
         THEN [st EXCEPT !.raised = TRUE]      \* AttributeError: no .lower()
         ELSE IF IsExpected(detected_item, inventory_items)
         THEN MisplacedLoop(st, shelf_name, items_detected, inventory_items, k + 1, pick)
         ELSE Bind(create_misplacement_alert(st.db, shelf_name, detected_item,
                                             inventory_items, pick), LAMBDA c :
              MisplacedLoop([st EXCEPT !.db = c.db, !.alerts = Append(@, c.ret)],
                            shelf_name, items_detected, inventory_items, k + 1, pick))

\* lines 257-261: some detected label matches the inventory item
ItemFound(inventory_item, items_detected) ==
    \E j \in 1..Len(items_detected) :
        \/ Contains(Lower(items_detected[j]), Lower(inventory_item.product_name))
        \/ Contains(Lower(inventory_item.product_name), Lower(items_detected[j]))

\* lines 255-263
MissingItems(inventory_items, items_detected) ==
    LET m == SelectSeq2(inventory_items, LAMBDA it : ~ItemFound(it, items_detected))
    IN [i \in 1..Len(m) |-> m[i].product_name]

\* mutant of check_misplacement: the missing check also runs for an empty list
check_misplacement_always_missing(db, shelf_name, items_detected, inventory_items, pick) ==
    Bind(MisplacedLoop([db |-> db, alerts |-> <<>>, raised |-> FALSE],
                       shelf_name, items_detected, inventory_items, 1, pick), LAMBDA l :
         IF l.raised THEN l
         ELSE Bind(create_missing_items_alert(l.db, shelf_name,
                        MissingItems(inventory_items, items_detected), pick), LAMBDA c :
              [db |-> c.db,
               alerts |-> IF c.ret # 0 THEN Append(l.alerts, c.ret) ELSE l.alerts,
               raised |-> FALSE]))

\* _check_misplacement
check_misplacement(db, shelf_name, items_detected, inventory_items, pick) ==
    IF items_detected = <<>> THEN [db |-> db, alerts |-> <<>>, raised |-> FALSE]
    ELSE Bind(MisplacedLoop([db |-> db, alerts |-> <<>>, raised |-> FALSE],
                            shelf_name, items_detected, inventory_items, 1, pick), LAMBDA l :
         IF l.raised THEN l
         ELSE Bind(create_missing_items_alert(l.db, shelf_name,
                        MissingItems(inventory_items, items_detected), pick), LAMBDA c :
              [db |-> c.db,
               alerts |-> IF c.ret # 0 THEN Append(l.alerts, c.ret) ELSE l.alerts,
               raised |-> FALSE]))

\* ------------------------------------------------------------------ unknown shelf

\* mutant of create_unknown_shelf_alert: the alert is created ACTIVE and assigned
create_unknown_shelf_alert_active(db, shelf_number, items_detected) ==
    IF \E j \in 1..Len(items_detected) : ~IsStr(items_detected[j])
    THEN [db |-> db, ret |-> 0, raised |-> TRUE]
    ELSE
    LET d1 == AddAlert(db,
                [AlertDefaults EXCEPT
                   !.alert_type = MISPLACED_ITEM,
                   !.priority = P_LOW,
                   !.status = ACTIVE,
                   !.shelf_name = shelf_number,
                   !.title = <<"(question) UNKNOWN SHELF: ">> \o shelf_number,
                   !.message = <<"Shelf ">> \o shelf_number,
                   !.actual_product = IF items_detected # <<>>
                                      THEN Join(<<", ">>, items_detected) ELSE NullStr,
                   !.assigned_staff_id = get_assigned_staff_id(A1),
                   !.created_by = <<"system">>])
        n == Len(d1.alerts)
    IN [db |-> log_alert_action(d1, n, "created", NoStaff), ret |-> n, raised |-> FALSE]

\* _create_unknown_shelf_alert; ', '.join raises TypeError on a non-string element
create_unknown_shelf_alert(db, shelf_number, items_detected) ==
    IF \E j \in 1..Len(items_detected) : ~IsStr(items_detected[j])
    THEN [db |-> db, ret |-> 0, raised |-> TRUE]
    ELSE
    LET title == <<"(question) UNKNOWN SHELF: ">> \o shelf_number
        message == <<"Shelf ">> \o shelf_number \o <<" not found in inventory system.">>
                   \o (IF items_detected # <<>>
                       THEN <<" Detected items: ">> \o Join(<<", ">>, items_detected)
                       ELSE <<>>)
        d1 == AddAlert(db,
                [AlertDefaults EXCEPT
                   !.alert_type = MISPLACED_ITEM,
                   !.priority = P_LOW,
                   !.status = PENDING,
                   !.shelf_name = shelf_number,
                   !.title = title,
                   !.message = message,
                   !.actual_product = IF items_detected # <<>>
                                      THEN Join(<<", ">>, items_detected) ELSE NullStr,
                   !.assigned_staff_id = NoStaff,
                   !.created_by = <<"system">>])
        n == Len(d1.alerts)
    IN [db |-> log_alert_action(d1, n, "created", NoStaff), ret |-> n, raised |-> FALSE]

\* ------------------------------------------------------------------ ingestion

\* mutant of process_known_shelf: the stock lookup is repeated on the rows as
\* they are at the write (a lookup serialized with the insert)
process_known_shelf_relooked(db, shelf_number, empty_percentage, items_detected, found, pick) ==
    LET fill_percentage == 100 - empty_percentage
        inventory_items == InventoryFor(shelf_number)
    IN Bind(check_stock_levels(db, shelf_number, fill_percentage, empty_percentage,
                               inventory_items, pick), LAMBDA s :
       Bind(check_misplacement(s.db, shelf_number, items_detected, inventory_items, pick),
            LAMBDA m :
       [db |-> m.db,
        alerts |-> (IF s.ret # 0 THEN <<s.ret>> ELSE <<>>) \o m.alerts,
        raised |-> m.raised]))

\* _process_shelf_data from line 95 on (known shelf), the stock lookup given
process_known_shelf(db, shelf_number, empty_percentage, items_detected, found, pick) ==
    LET fill_percentage == 100 - empty_percentage
        inventory_items == InventoryFor(shelf_number)
    IN Bind(check_stock_levels_write(db, shelf_number, fill_percentage, empty_percentage,
                                     inventory_items, found), LAMBDA s :
       Bind(check_misplacement(s.db, shelf_number, items_detected, inventory_items, pick),
            LAMBDA m :
       [db |-> m.db,
        alerts |-> (IF s.ret # 0 THEN <<s.ret>> ELSE <<>>) \o m.alerts,
        raised |-> m.raised]))

\* _process_shelf_data
process_shelf_data(db, shelf_number, empty_percentage, items_detected, pick) ==
    IF shelf_number \notin Shelves
    THEN LET u == create_unknown_shelf_alert(db, shelf_number, items_detected)
         IN [db |-> u.db,
             alerts |-> IF u.ret # 0 THEN <<u.ret>> ELSE <<>>,
             raised |-> u.raised]
    ELSE process_known_shelf(db, shelf_number, empty_percentage, items_detected,
                             StockLookup(db.alerts, shelf_number, 100 - empty_percentage, pick),
                             pick)

Failure(op, error) ==
    [op |-> op, success |-> FALSE, error |-> error,
     alerts_created |-> 0, alerts |-> <<>>, errors |-> <<error>>]

\* process_json_data, lines 45-74, given what _process_shelf_data did (r): the
\* inner except keeps the error text, then the session is committed as it stands
commit_shelf_data(shelf_data) ==
    Bind(shelf_data, LAMBDA r :
    [db |-> r.db,
     result |-> [op |-> "process", success |-> TRUE, error |-> "",
                 alerts_created |-> IF r.raised THEN 0 ELSE Len(r.alerts),
                 alerts |-> IF r.raised THEN <<>> ELSE r.alerts,
                 errors |-> IF r.raised THEN <<"Error processing shelf">> ELSE <<>>]])

\* process_json_data
process_json_data(db, json_data, pick) ==
    IF json_data.shelf_number = <<>>
    THEN \* ValueError -> outer except: rollback
         [db |-> db, result |-> Failure("process", "Invalid JSON structure")]
    ELSE commit_shelf_data(process_shelf_data(db, json_data.shelf_number,
                                              json_data.empty_percentage,
                                              json_data.items_detected, pick))

\* ------------------------------------------------------------------ lifecycle

\* mutant of acknowledge_alert: an ACKNOWLEDGED alert is accepted again
acknowledge_alert_again(db, alert_id, employee_id) ==
    IF alert_id \in 1..Len(db.alerts)
       /\ db.alerts[alert_id].status \in {ACTIVE, ACKNOWLEDGED}
    THEN LET d1 == [db EXCEPT !.alerts[alert_id].status = ACKNOWLEDGED,
                              !.alerts[alert_id].acknowledged_at = TRUE]
         IN [db |-> log_alert_action(d1, alert_id, "acknowledged", employee_id), ret |-> TRUE]
    ELSE [db |-> db, ret |-> FALSE]

\* mutant of acknowledge_alert: acknowledged_at is not set
acknowledge_alert_no_timestamp(db, alert_id, employee_id) ==
    IF alert_id \in 1..Len(db.alerts) /\ db.alerts[alert_id].status = ACTIVE
    THEN LET d1 == [db EXCEPT !.alerts[alert_id].status = ACKNOWLEDGED]
         IN [db |-> log_alert_action(d1, alert_id, "acknowledged", employee_id), ret |-> TRUE]
    ELSE [db |-> db, ret |-> FALSE]

\* AlertService.acknowledge_alert
acknowledge_alert(db, alert_id, employee_id) ==
    IF alert_id \in 1..Len(db.alerts) /\ db.alerts[alert_id].status = ACTIVE
    THEN LET d1 == [db EXCEPT !.alerts[alert_id].status = ACKNOWLEDGED,
                              !.alerts[alert_id].acknowledged_at = TRUE]
         IN [db |-> log_alert_action(d1, alert_id, "acknowledged", employee_id), ret |-> TRUE]
    ELSE [db |-> db, ret |-> FALSE]

\* mutant of resolve_alert: a RESOLVED alert is accepted again
resolve_alert_again(db, alert_id, employee_id) ==
    IF alert_id \in 1..Len(db.alerts)
       /\ db.alerts[alert_id].status \in {ACTIVE, ACKNOWLEDGED, RESOLVED}
    THEN LET d1 == [db EXCEPT !.alerts[alert_id].status = RESOLVED,
                              !.alerts[alert_id].resolved_at = TRUE]
         IN [db |-> log_alert_action(d1, alert_id, "resolved", employee_id), ret |-> TRUE]
    ELSE [db |-> db, ret |-> FALSE]

\* mutant of resolve_alert: the status is not looked at
resolve_alert_unguarded(db, alert_id, employee_id) ==
    IF alert_id \in 1..Len(db.alerts)
    THEN LET d1 == [db EXCEPT !.alerts[alert_id].status = RESOLVED,
                              !.alerts[alert_id].resolved_at = TRUE]
         IN [db |-> log_alert_action(d1, alert_id, "resolved", employee_id), ret |-> TRUE]
    ELSE [db |-> db, ret |-> FALSE]

\* AlertService.resolve_alert
resolve_alert(db, alert_id, employee_id) ==
    IF alert_id \in 1..Len(db.alerts) /\ db.alerts[alert_id].status \in {ACTIVE, ACKNOWLEDGED}
    THEN LET d1 == [db EXCEPT !.alerts[alert_id].status = RESOLVED,
                              !.alerts[alert_id].resolved_at = TRUE]
         IN [db |-> log_alert_action(d1, alert_id, "resolved", employee_id), ret |-> TRUE]
    ELSE [db |-> db, ret |-> FALSE]

\* POST /acknowledge/{alert_id} (alerts.py): HTTP status of the reply
acknowledge_route(db, alert_id, employee_id) ==
    IF employee_id \notin Employees
    THEN [db |-> db, status |-> 404, detail |-> "Employee not found"]
    ELSE LET r == acknowledge_alert(db, alert_id, employee_id)
         IN IF r.ret
            THEN [db |-> r.db, status |-> 200, detail |-> "Alert acknowledged successfully"]
            ELSE [db |-> r.db, status |-> 404, detail |-> "Alert not found or already processed"]

\* POST /resolve/{alert_id} (alerts.py): HTTP status of the reply
resolve_route(db, alert_id, employee_id) ==
    IF employee_id \notin Employees
    THEN [db |-> db, status |-> 404, detail |-> "Employee not found"]
    ELSE LET r == resolve_alert(db, alert_id, employee_id)
         IN IF r.ret
            THEN [db |-> r.db, status |-> 200, detail |-> "Alert resolved successfully"]
            ELSE [db |-> r.db, status |-> 404, detail |-> "Alert not found or cannot be resolved"]

RECURSIVE BulkAcknowledgeLoop(_, _, _, _)
\* bulk_acknowledge_alerts, lines 444-453: the loop over alert_ids from position k
BulkAcknowledgeLoop(st, alert_ids, employee_id, k) ==
    IF k > Len(alert_ids) THEN st
    ELSE Bind(acknowledge_alert(st.db, alert_ids[k], employee_id), LAMBDA r :
         BulkAcknowledgeLoop(
             IF r.ret
             THEN [st EXCEPT !.db = r.db, !.successful_count = @ + 1]
             ELSE [st EXCEPT !.failed_alerts = Append(@, alert_ids[k])],
             alert_ids, employee_id, k + 1))

RECURSIVE BulkResolveLoop(_, _, _, _)
\* bulk_resolve_alerts, lines 490-499: the loop over alert_ids from position k
BulkResolveLoop(st, alert_ids, employee_id, k) ==
    IF k > Len(alert_ids) THEN st
    ELSE Bind(resolve_alert(st.db, alert_ids[k], employee_id), LAMBDA r :
         BulkResolveLoop(
             IF r.ret
             THEN [st EXCEPT !.db = r.db, !.successful_count = @ + 1]
             ELSE [st EXCEPT !.failed_alerts = Append(@, alert_ids[k])],
             alert_ids, employee_id, k + 1))

\* the reply of a bulk route that raised HTTPException before its loop
BulkRejected(db, status) ==
    [db |-> db, status |-> status, success |-> FALSE, successful_count |-> 0,
     failed_alerts |-> <<>>, total_requested |-> 0]

\* the reply of a bulk route after its loop
BulkReply(st, alert_ids) ==
    [db |-> st.db, status |-> 200, success |-> TRUE,
     successful_count |-> st.successful_count, failed_alerts |-> st.failed_alerts,
     total_requested |-> Len(alert_ids)]

\* mutant of bulk_acknowledge_route: the first id that fails ends the loop
bulk_acknowledge_route_stops(db, alert_ids, employee_id) ==
    IF employee_id \notin Employees THEN BulkRejected(db, 404)
    ELSE IF alert_ids = <<>> THEN BulkRejected(db, 400)
    ELSE LET bad == {k \in 1..Len(alert_ids) :
                        ~(alert_ids[k] \in 1..Len(db.alerts)
                          /\ db.alerts[alert_ids[k]].status = ACTIVE)}
             upto == IF bad = {} THEN Len(alert_ids)
                     ELSE (CHOOSE k \in bad : \A m \in bad : k <= m)
         IN BulkReply(BulkAcknowledgeLoop([db |-> db, successful_count |-> 0,
                                           failed_alerts |-> <<>>],
                                          SubSeq(alert_ids, 1, upto), employee_id, 1),
                      alert_ids)

\* POST /bulk-acknowledge (alerts.py)
bulk_acknowledge_route(db, alert_ids, employee_id) ==
    IF employee_id \notin Employees THEN BulkRejected(db, 404)
    ELSE IF alert_ids = <<>> THEN BulkRejected(db, 400)
    ELSE BulkReply(BulkAcknowledgeLoop([db |-> db, successful_count |-> 0,
                                        failed_alerts |-> <<>>],
                                       alert_ids, employee_id, 1),
                   alert_ids)

\* POST /bulk-resolve (alerts.py)
bulk_resolve_route(db, alert_ids, employee_id) ==
    IF employee_id \notin Employees THEN BulkRejected(db, 404)
    ELSE IF alert_ids = <<>> THEN BulkRejected(db, 400)
    ELSE BulkReply(BulkResolveLoop([db |-> db, successful_count |-> 0,
                                    failed_alerts |-> <<>>],
                                   alert_ids, employee_id, 1),
                   alert_ids)

\* ------------------------------------------------------------------ entry points

\* the keys a snapshot must carry (alerts.py line 42)
required_fields == {"shelf_number", "empty_percentage", "items_detected"}

\* json_data.get(...) of process_json_data, lines 38-40: the snapshot the engine
\* works on when the keys in data.missing are absent from the JSON object (an
\* absent shelf_number reads as None, which line 42 treats like the empty text)
json_get(data) ==
    [shelf_number |-> IF "shelf_number" \in data.missing THEN <<>>
                      ELSE data.fields.shelf_number,
     empty_percentage |-> IF "empty_percentage" \in data.missing THEN 0
                          ELSE data.fields.empty_percentage,
     items_detected |-> IF "items_detected" \in data.missing THEN <<>>
                        ELSE data.fields.items_detected]

\* POST /process (alerts.py): the required keys are checked before the engine runs
process_route(db, data, pick) ==
    IF data.missing # {}
    THEN [db |-> db, status |-> 400, alerts_created |-> 0]
    ELSE Bind(process_json_data(db, json_get(data), pick), LAMBDA r :
         IF r.result.success
         THEN [db |-> r.db, status |-> 200, alerts_created |-> r.result.alerts_created]
         ELSE [db |-> r.db, status |-> 500, alerts_created |-> 0])

\* POST /detect/ (detect.py): output.json is loaded and handed to the engine as
\* it is; the reply is built from the engine's result whatever its success flag
detect_route(db, data, pick) ==
    Bind(process_json_data(db, json_get(data), pick), LAMBDA r :
    [db |-> r.db, status |-> 200, alerts_created |-> r.result.alerts_created])

\* ------------------------------------------------------------------ inputs

Banana == <<"banana">>
Hammer == <<"Hammer">>
Wrench == <<"wrench">>
Percent == <<Wildcard>>

Snap(shelf_number, empty_percentage, items_detected) ==
    [shelf_number |-> shelf_number, empty_percentage |-> empty_percentage,
     items_detected |-> items_detected]

\* the snapshots the calls are drawn from: fill 0, 40 and 90 on a known shelf,
\* expected, misplaced, repeated, empty and non-string labels, a second known
\* shelf, an unknown shelf and an empty shelf_number
Snapshots ==
    { Snap(A1, 100, <<>>), Snap(A1, 60, <<>>), Snap(A1, 10, <<>>),
      Snap(A1, 10, <<Banana>>),
      Snap(A1, 10, <<Hammer>>), Snap(A1, 60, <<Hammer>>),
      Snap(A1, 10, <<Marker>>), Snap(A1, 60, <<Marker>>),
      Snap(A1, 10, <<Hammer, Hammer>>),
      Snap(A1, 60, <<Hammer, NonStr>>),
      Snap(A1, 10, <<(<<>>)>>),
      Snap(B2, 60, <<>>), Snap(B2, 10, <<Banana>>),
      Snap(Z9, 60, <<>>), Snap(Z9, 60, <<Hammer>>), Snap(Z9, 60, <<NonStr>>),
      Snap(<<>>, 60, <<>>) }

\* the snapshots of the concurrent sessions: known shelves only
ConcSnapshots == {j \in Snapshots : j.shelf_number \in Shelves /\ j.items_detected = <<>>}

EmployeeIds == Employees \cup {"E9"}

AlertIds == 1..(MaxAlerts + 1)

ShelfNames == Shelves \cup {Z9}

DB == [alerts |-> alerts, history |-> history]

Sessions == {1, 2}

Idle == [pc |-> "idle", json_data |-> Snap(<<>>, 0, <<>>), found |-> {}]

\* ------------------------------------------------------------------ actions

Init ==
    /\ alerts = <<>>
    /\ history = <<>>
    /\ sess = [s \in Sessions |-> Idle]
    /\ assignment = [e \in Employees |-> A1]

Fits(db) == Len(db.alerts) <= MaxAlerts /\ Len(db.history) <= MaxHistory

\* POST /process -> AlertService.process_json_data
ProcessJsonData(json_data, pick) ==
    \E out \in {process_json_data(DB, json_data, pick)} :
    /\ Fits(out.db)
    /\ alerts' = out.db.alerts
    /\ history' = out.db.history
    /\ UNCHANGED <<sess, assignment>>

\* POST /acknowledge/{alert_id}
AcknowledgeAlert(alert_id, employee_id) ==
    \E out \in {acknowledge_route(DB, alert_id, employee_id)} :
    /\ Fits(out.db)
    /\ alerts' = out.db.alerts
    /\ history' = out.db.history
    /\ UNCHANGED <<sess, assignment>>

\* POST /resolve/{alert_id}
ResolveAlert(alert_id, employee_id) ==
    \E out \in {resolve_route(DB, alert_id, employee_id)} :
    /\ Fits(out.db)
    /\ alerts' = out.db.alerts
    /\ history' = out.db.history
    /\ UNCHANGED <<sess, assignment>>

Next ==
    \/ \E json_data \in Snapshots, pick \in Picks : ProcessJsonData(json_data, pick)
    \/ \E alert_id \in AlertIds, employee_id \in EmployeeIds :
          AcknowledgeAlert(alert_id, employee_id)
    \/ \E alert_id \in AlertIds, employee_id \in EmployeeIds :
          ResolveAlert(alert_id, employee_id)

\* every call runs alone, from its first query to its commit
Spec == Init /\ [][Next]_vars

\* ------------------------------------------------------------------ concurrent ingestion

\* A request session runs process_json_data for a known shelf up to the lookup
\* of _check_stock_levels (line 159 / line 454): it reads the committed rows.
ConcLookup(s, json_data, pick) ==
    /\ sess[s].pc = "idle"
    /\ sess' = [sess EXCEPT ![s] =
                  [pc |-> "looked", json_data |-> json_data,
                   found |-> StockLookup(alerts, json_data.shelf_number,
                                         100 - json_data.empty_percentage, pick)]]
    /\ UNCHANGED <<alerts, history, assignment>>

\* The session runs on from the lookup's result to db.commit() (line 54): the
\* rows it writes get the next ids and become visible to the other sessions.
ConcCommit(s, pick) ==
    /\ sess[s].pc = "looked"
    /\ \E j \in {sess[s].json_data} :
       \E out \in {commit_shelf_data(
                       process_known_shelf(DB, j.shelf_number, j.empty_percentage,
                                           j.items_detected, sess[s].found, pick))} :
       /\ Fits(out.db)
       /\ alerts' = out.db.alerts
       /\ history' = out.db.history
       /\ sess' = [sess EXCEPT ![s] = Idle]
       /\ UNCHANGED assignment

NextConc ==
    \/ \E s \in Sessions, json_data \in ConcSnapshots, pick \in Picks :
          ConcLookup(s, json_data, pick)
    \/ \E s \in Sessions, pick \in Picks : ConcCommit(s, pick)

\* calls of several request sessions interleave between lookup and commit
SpecConc == Init /\ [][NextConc]_vars

\* ------------------------------------------------------------------ staff assignment

\* POST /assign (staff_assignment.py): an employee without an active assignment
\* gets an active row for a shelf of the catalog
AssignStaff(employee_id, shelf_id) ==
    /\ employee_id \in Employees
    /\ shelf_id \in Shelves
    /\ assignment[employee_id] = NoShelf
    /\ assignment' = [assignment EXCEPT ![employee_id] = shelf_id]
    /\ UNCHANGED <<alerts, history, sess>>

\* DELETE /{assignment_id}: the row is deleted
UnassignStaff(employee_id) ==
    /\ employee_id \in Employees
    /\ assignment[employee_id] # NoShelf
    /\ assignment' = [assignment EXCEPT ![employee_id] = NoShelf]
    /\ UNCHANGED <<alerts, history, sess>>

\* POST /transfer/{assignment_id}: the row's shelf_id is set to another shelf
TransferStaff(employee_id, new_shelf_id) ==
    /\ employee_id \in Employees
    /\ new_shelf_id \in Shelves
    /\ assignment[employee_id] # NoShelf
    /\ assignment' = [assignment EXCEPT ![employee_id] = new_shelf_id]
    /\ UNCHANGED <<alerts, history, sess>>

\* the snapshots ingested while the assignments change: a known shelf with low
\* and with normal fill, a misplaced label, a second shelf, an unknown shelf
StaffSnapshots ==
    { Snap(A1, 60, <<>>), Snap(A1, 10, <<>>), Snap(A1, 60, <<Hammer>>),
      Snap(B2, 60, <<>>), Snap(Z9, 60, <<>>) }

NextStaff ==
    \/ \E json_data \in StaffSnapshots, pick \in Picks : ProcessJsonData(json_data, pick)
    \/ \E alert_id \in AlertIds, employee_id \in EmployeeIds :
          AcknowledgeAlert(alert_id, employee_id)
    \/ \E alert_id \in AlertIds, employee_id \in EmployeeIds :
          ResolveAlert(alert_id, employee_id)
    \/ \E employee_id \in Employees, shelf_id \in Shelves : AssignStaff(employee_id, shelf_id)
    \/ \E employee_id \in Employees : UnassignStaff(employee_id)
    \/ \E employee_id \in Employees, shelf_id \in Shelves : TransferStaff(employee_id, shelf_id)

\* the alert routes and the staff assignment routes, one request at a time
SpecStaff == Init /\ [][NextStaff]_vars

\* ------------------------------------------------------------------ concurrent lifecycle calls

\* the snapshots ingested between the lifecycle calls
LifeSnapshots == { Snap(A1, 60, <<>>), Snap(B2, 10, <<Banana>>) }

\* A request session runs acknowledge_alert (op "acknowledge", lines 517-518) or
\* resolve_alert (op "resolve", lines 533-534) up to the test of the status: it
\* reads the committed row. When the test fails the call returns False and the
\* session has nothing to write.
LifeRead(s, op, alert_id) ==
    /\ sess[s].pc = "idle"
    /\ alert_id \in 1..Len(alerts)
    /\ alerts[alert_id].status \in (IF op = "acknowledge" THEN {ACTIVE}
                                     ELSE {ACTIVE, ACKNOWLEDGED})
    /\ sess' = [sess EXCEPT ![s] = [pc |-> op, json_data |-> Idle.json_data,
                                    found |-> {alert_id}]]
    /\ UNCHANGED <<alerts, history, assignment>>

\* The session runs on to db.commit() (line 525 / line 541): the UPDATE of the
\* attributes it set on its copy of the row (status and the timestamp) and the
\* INSERT of its history row; the status committed meanwhile is not read again.
LifeCommit(s, employee_id) ==
    /\ sess[s].pc \in {"acknowledge", "resolve"}
    /\ \E alert_id \in sess[s].found :
       \E db \in {log_alert_action(
                       IF sess[s].pc = "acknowledge"
                       THEN [DB EXCEPT !.alerts[alert_id].status = ACKNOWLEDGED,
                                       !.alerts[alert_id].acknowledged_at = TRUE]
                       ELSE [DB EXCEPT !.alerts[alert_id].status = RESOLVED,
                                       !.alerts[alert_id].resolved_at = TRUE],
                       alert_id,
                       IF sess[s].pc = "acknowledge" THEN "acknowledged" ELSE "resolved",
                       employee_id)} :
       /\ Fits(db)
       /\ alerts' = db.alerts
       /\ history' = db.history
       /\ sess' = [sess EXCEPT ![s] = Idle]
       /\ UNCHANGED assignment

NextLife ==
    \/ \E json_data \in LifeSnapshots, pick \in Picks : ProcessJsonData(json_data, pick)
    \/ \E s \in Sessions, op \in {"acknowledge", "resolve"}, alert_id \in AlertIds :
          LifeRead(s, op, alert_id)
    \/ \E s \in Sessions, employee_id \in Employees : LifeCommit(s, employee_id)

\* acknowledge and resolve calls of several request sessions interleave between
\* the read of the row and the commit
SpecLife == Init /\ [][NextLife]_vars

\* ------------------------------------------------------------------ stale findings

\* the snapshots of shelf B2 (expected item 'Hammer Set'): a wrong label, the
\* expected label, no label at low and at normal fill; a wrong label on A1 and
\* on an unknown shelf
StaleSnapshots ==
    { Snap(B2, 10, <<Banana>>), Snap(B2, 10, <<Hammer>>), Snap(B2, 10, <<>>),
      Snap(B2, 60, <<>>), Snap(A1, 10, <<Hammer>>), Snap(Z9, 10, <<Banana>>) }

NextStale ==
    \/ \E json_data \in StaleSnapshots, pick \in Picks : ProcessJsonData(json_data, pick)
    \/ \E alert_id \in AlertIds, employee_id \in EmployeeIds :
          AcknowledgeAlert(alert_id, employee_id)
    \/ \E alert_id \in AlertIds, employee_id \in EmployeeIds :
          ResolveAlert(alert_id, employee_id)

\* ingestions that no longer report an earlier finding, one call at a time
SpecStale == Init /\ [][NextStale]_vars

\* ------------------------------------------------------------------ correct location

\* the snapshots with a misplaced label: one stocked on another shelf, one
\* stocked nowhere, one that is a LIKE wildcard; on both known shelves
LocSnapshots ==
    { Snap(A1, 10, <<Hammer>>), Snap(A1, 10, <<Wrench>>), Snap(A1, 10, <<Percent>>),
      Snap(B2, 10, <<Banana>>), Snap(B2, 10, <<Percent>>), Snap(B2, 60, <<>>) }

NextLoc ==
    \/ \E json_data \in LocSnapshots, pick \in Picks : ProcessJsonData(json_data, pick)
    \/ \E alert_id \in AlertIds, employee_id \in EmployeeIds :
          AcknowledgeAlert(alert_id, employee_id)
    \/ \E alert_id \in AlertIds, employee_id \in EmployeeIds :
          ResolveAlert(alert_id, employee_id)

\* ingestions with misplaced labels, one call at a time
SpecLoc == Init /\ [][NextLoc]_vars

\* ------------------------------------------------------------------ bulk routes

\* the alert_ids lists of the bulk requests: empty, one id, two ids (also the
\* same id twice, and ids of no alert)
IdLists == {<<>>} \cup {<<a>> : a \in AlertIds} \cup {<<a, b>> : a, b \in AlertIds}

\* the snapshots ingested between the bulk requests
BulkSnapshots ==
    { Snap(A1, 60, <<>>), Snap(A1, 60, <<Hammer>>), Snap(B2, 60, <<>>), Snap(Z9, 60, <<>>) }

\* POST /bulk-acknowledge
BulkAcknowledge(alert_ids, employee_id) ==
    \E out \in {bulk_acknowledge_route(DB, alert_ids, employee_id)} :
    /\ Fits(out.db)
    /\ alerts' = out.db.alerts
    /\ history' = out.db.history
    /\ UNCHANGED <<sess, assignment>>

\* POST /bulk-resolve
BulkResolve(alert_ids, employee_id) ==
    \E out \in {bulk_resolve_route(DB, alert_ids, employee_id)} :
    /\ Fits(out.db)
    /\ alerts' = out.db.alerts
    /\ history' = out.db.history
    /\ UNCHANGED <<sess, assignment>>

NextBulk ==
    \/ \E json_data \in BulkSnapshots, pick \in Picks : ProcessJsonData(json_data, pick)
    \/ \E alert_ids \in IdLists, employee_id \in EmployeeIds :
          BulkAcknowledge(alert_ids, employee_id)
    \/ \E alert_ids \in IdLists, employee_id \in EmployeeIds :
          BulkResolve(alert_ids, employee_id)

\* ingestions and bulk requests, one request at a time
SpecBulk == Init /\ [][NextBulk]_vars

\* ------------------------------------------------------------------ entry points

\* the JSON objects handed to the entry points: a snapshot of a known shelf
\* (one of them with a label that is a number) and the set of its keys that are
\* absent
Bodies ==
    [fields : {Snap(A1, 60, <<>>), Snap(A1, 10, <<Hammer>>), Snap(B2, 90, <<Banana>>),
               Snap(A1, 60, <<NonStr, Hammer>>)},
     missing : SUBSET required_fields]

\* POST /process
ProcessRoute(data, pick) ==
    \E out \in {process_route(DB, data, pick)} :
    /\ Fits(out.db)
    /\ alerts' = out.db.alerts
    /\ history' = out.db.history
    /\ UNCHANGED <<sess, assignment>>

\* POST /detect/
DetectRoute(data, pick) ==
    \E out \in {detect_route(DB, data, pick)} :
    /\ Fits(out.db)
    /\ alerts' = out.db.alerts
    /\ history' = out.db.history
    /\ UNCHANGED <<sess, assignment>>

NextEntry ==
    \/ \E data \in Bodies, pick \in Picks : ProcessRoute(data, pick)
    \/ \E data \in Bodies, pick \in Picks : DetectRoute(data, pick)

\* the two routes that feed the engine, one request at a time
SpecEntry == Init /\ [][NextEntry]_vars

\* ------------------------------------------------------------------ every fill percentage

\* the integer empty percentages of a snapshot
Percentages == 0..100

\* POST /process with a snapshot of shelf A1 without labels and any empty percentage
IngestFill(empty_percentage, pick) ==
    /\ Len(history) < MaxFillHistory
    /\ ProcessJsonData(Snap(A1, empty_percentage, <<>>), pick)

NextFill == \E empty_percentage \in Percentages, pick \in Picks : IngestFill(empty_percentage, pick)

\* snapshots of one shelf with every integer fill, one request at a time
SpecFill == Init /\ [][NextFill]_vars

\* ------------------------------------------------------------------ claims

Ids == 1..Len(alerts)

IsStockTier(a) == a.alert_type \in StockTypes

IsActiveStock(a) == a.status = ACTIVE /\ a.rack_name = NullStr /\ IsStockTier(a)

HasRecord(alert_id, action) ==
    \E k \in 1..Len(history) : history[k].alert_id = alert_id /\ history[k].action = action

CountRecords(rows, alert_id, action) ==
    Cardinality({k \in 1..Len(rows) : rows[k].alert_id = alert_id /\ rows[k].action = action})

KnownLow(j) == j.shelf_number \in Shelves /\ 100 - j.empty_percentage < ThresholdLow

KnownNormal(j) == j.shelf_number \in Shelves /\ 100 - j.empty_percentage >= ThresholdLow

\* C1: under sequentially executed ingestions, acknowledge and resolve calls,
\* every shelf has at most one alert that is ACTIVE, shelf-level (rack_name
\* null) and of a stock-tier type.
C1_OneActiveStockAlertPerShelf ==
    \A shelf \in ShelfNames :
        Cardinality({i \in Ids : alerts[i].shelf_name = shelf /\ IsActiveStock(alerts[i])}) <= 1

\* An ACTIVE stock alert that was updated in place, next to an earlier stock
\* alert of the same shelf that is no longer ACTIVE.
C1_Witness ==
    \E i, j \in Ids :
        /\ i # j
        /\ alerts[i].shelf_name = alerts[j].shelf_name
        /\ IsActiveStock(alerts[i]) /\ HasRecord(i, "updated")
        /\ IsStockTier(alerts[j]) /\ alerts[j].status # ACTIVE

\* C2: for every shelf and every detected label there is at most one ACTIVE
\* MISPLACED_ITEM alert with that shelf_name and that actual_product, also when
\* one snapshot lists the label twice.
C2_OneActiveMisplacementPerLabel ==
    \A i, j \in Ids :
        ( /\ alerts[i].alert_type = MISPLACED_ITEM /\ alerts[i].status = ACTIVE
          /\ alerts[j].alert_type = MISPLACED_ITEM /\ alerts[j].status = ACTIVE
          /\ alerts[i].shelf_name = alerts[j].shelf_name
          /\ alerts[i].actual_product # NullStr
          /\ alerts[i].actual_product = alerts[j].actual_product ) => i = j

\* The misplacement alert of a label was created and then found again and updated.
C2_Witness ==
    \E i \in Ids :
        /\ alerts[i].alert_type = MISPLACED_ITEM /\ alerts[i].status = ACTIVE
        /\ alerts[i].actual_product = Hammer
        /\ HasRecord(i, "created") /\ HasRecord(i, "updated")

\* C3: for every shelf there is at most one ACTIVE MISPLACED_ITEM alert whose
\* title contains the MISSING ITEMS marker, whatever the labels and shelf names.
C3_OneActiveMissingAlertPerShelf ==
    \A shelf \in ShelfNames :
        Cardinality({i \in Ids : /\ alerts[i].shelf_name = shelf
                                 /\ alerts[i].alert_type = MISPLACED_ITEM
                                 /\ alerts[i].status = ACTIVE
                                 /\ Contains(alerts[i].title, Marker)}) <= 1

\* C4: an ingestion in which a step raises after the snapshot wrote to the
\* session reports success = false and commits nothing: the committed rows
\* stay as they were before the call.
C4_ErrorRollsBack ==
    [][ \A json_data \in Snapshots, pick \in Picks :
          ( /\ ProcessJsonData(json_data, pick)
            /\ json_data.shelf_number # <<>>
            /\ process_shelf_data(DB, json_data.shelf_number, json_data.empty_percentage,
                                  json_data.items_detected, pick).raised )
          => ( /\ ~process_json_data(DB, json_data, pick).result.success
               /\ alerts' = alerts
               /\ history' = history ) ]_vars

\* C5: a session whose lookup for an existing ACTIVE stock alert of a known
\* shelf with low fill found none creates an alert at its write, also when
\* another session has committed one for that shelf since the lookup: the
\* shelf then has one ACTIVE stock alert more than before (two are reachable,
\* C5_Witness).
C5_StaleLookupCreatesDuplicate ==
    [][ \A s \in Sessions, pick \in Picks :
          ( /\ ConcCommit(s, pick)
            /\ KnownLow(sess[s].json_data)
            /\ sess[s].found = {} )
          => LET shelf == sess[s].json_data.shelf_number
                 n == Len(alerts) + 1
             IN /\ Len(alerts') >= n
                /\ alerts'[n].shelf_name = shelf
                /\ IsActiveStock(alerts'[n])
                /\ Cardinality({i \in 1..Len(alerts') :
                                   alerts'[i].shelf_name = shelf /\ IsActiveStock(alerts'[i])})
                   = Cardinality({i \in Ids :
                                   alerts[i].shelf_name = shelf /\ IsActiveStock(alerts[i])}) + 1
      ]_vars

\* Two ACTIVE shelf-level stock alerts of one shelf, both sessions finished.
C5_Witness ==
    /\ \A s \in Sessions : sess[s].pc = "idle"
    /\ \E i, j \in Ids :
          /\ i # j
          /\ alerts[i].shelf_name = alerts[j].shelf_name
          /\ IsActiveStock(alerts[i]) /\ IsActiveStock(alerts[j])

\* C6: ingesting the identical low-fill snapshot of a known shelf twice in a
\* row leaves exactly one ACTIVE stock alert, the same after both ingestions;
\* the second ingestion creates no alert and leaves every field of every alert
\* as the first ingestion left it.
C6_ReingestIsNoOp ==
    \A json_data \in Snapshots, p1 \in Picks, p2 \in Picks :
        KnownLow(json_data) =>
            LET d1 == process_json_data(DB, json_data, p1).db
                d2 == process_json_data(d1, json_data, p2).db
                active(rows) == {i \in 1..Len(rows) :
                                    /\ rows[i].shelf_name = json_data.shelf_number
                                    /\ IsActiveStock(rows[i])}
            IN /\ Cardinality(active(d1.alerts)) = 1
               /\ active(d2.alerts) = active(d1.alerts)
               /\ d2.alerts = d1.alerts

\* C7: the ingestion of a snapshot with fill >= 75 for a known shelf leaves every
\* alert of the shelf that was ACTIVE, shelf-level and stock-tier RESOLVED with
\* resolved_at set and one more auto_resolved history record, written without a
\* performer; no ACTIVE stock-tier alert of the shelf remains, and no row the
\* ingestion adds is a stock-tier alert.
C7_NormalFillAutoResolves ==
    \A json_data \in {j \in Snapshots : KnownNormal(j)}, pick \in Picks :
        \A out \in {process_json_data(DB, json_data, pick).db} :
            LET shelf == json_data.shelf_number
            IN /\ Len(out.alerts) >= Len(alerts)
               /\ \A i \in Ids :
                     ( alerts[i].shelf_name = shelf /\ IsActiveStock(alerts[i]) )
                     => /\ out.alerts[i] = [alerts[i] EXCEPT !.status = RESOLVED,
                                                             !.resolved_at = TRUE]
                        /\ CountRecords(out.history, i, "auto_resolved")
                           = CountRecords(history, i, "auto_resolved") + 1
                        /\ \A k \in (Len(history) + 1)..Len(out.history) :
                              ( out.history[k].alert_id = i
                                /\ out.history[k].action = "auto_resolved" )
                              => out.history[k].performed_by = NoStaff
               /\ \A i \in 1..Len(out.alerts) :
                     out.alerts[i].shelf_name = shelf => ~IsActiveStock(out.alerts[i])
               /\ \A i \in (Len(alerts) + 1)..Len(out.alerts) : ~IsStockTier(out.alerts[i])

\* A stock alert that a later snapshot with normal fill resolved: RESOLVED,
\* resolved_at set, an auto_resolved record without a performer.
C7_Witness ==
    \E i \in Ids :
        /\ IsStockTier(alerts[i]) /\ alerts[i].status = RESOLVED /\ alerts[i].resolved_at
        /\ \E k \in 1..Len(history) :
              /\ history[k].alert_id = i
              /\ history[k].action = "auto_resolved"
              /\ history[k].performed_by = NoStaff

\* C8: acknowledge_alert returns success exactly when the alert exists and is
\* ACTIVE; it then sets status ACKNOWLEDGED and acknowledged_at, changes no other
\* alert field, appends one acknowledged record, and a second call on the same
\* alert fails. On a missing, ACKNOWLEDGED, RESOLVED or PENDING alert it fails and
\* leaves alerts and history as they were. The route answers 200 exactly on success.
C8_AcknowledgeOnlyFromActive ==
    \A alert_id \in AlertIds, employee_id \in EmployeeIds :
        LET legal == alert_id \in Ids /\ alerts[alert_id].status = ACTIVE
            r == acknowledge_alert(DB, alert_id, employee_id)
            again == acknowledge_alert(r.db, alert_id, employee_id)
            route == acknowledge_route(DB, alert_id, employee_id)
        IN /\ employee_id \in Employees =>
                /\ r.ret = legal
                /\ legal => /\ r.db.alerts = [alerts EXCEPT ![alert_id].status = ACKNOWLEDGED,
                                                            ![alert_id].acknowledged_at = TRUE]
                            /\ r.db.history = Append(history,
                                   [alert_id |-> alert_id, action |-> "acknowledged",
                                    performed_by |-> employee_id])
                            /\ ~again.ret
                            /\ again.db = r.db
                /\ ~legal => r.db = DB
           /\ (route.status = 200) = (legal /\ employee_id \in Employees)
           /\ route.status # 200 => route.db = DB

\* An alert that was acknowledged by an employee and on which a further
\* acknowledge call fails.
C8_Witness ==
    \E i \in Ids :
        /\ alerts[i].status = ACKNOWLEDGED /\ alerts[i].acknowledged_at
        /\ \E k \in 1..Len(history) :
              /\ history[k].alert_id = i
              /\ history[k].action = "acknowledged"
              /\ history[k].performed_by \in Employees
        /\ \A employee_id \in Employees : ~acknowledge_alert(DB, i, employee_id).ret

\* C9: resolve_alert returns success exactly when the alert exists and is ACTIVE
\* or ACKNOWLEDGED; it then sets status RESOLVED and resolved_at, changes no other
\* alert field and appends one resolved record. On a missing, RESOLVED or PENDING
\* alert it fails and leaves alerts and history as they were.
C9_ResolveOnlyFromActiveOrAcknowledged ==
    \A alert_id \in AlertIds, employee_id \in EmployeeIds :
        LET legal == alert_id \in Ids /\ alerts[alert_id].status \in {ACTIVE, ACKNOWLEDGED}
            r == resolve_alert(DB, alert_id, employee_id)
            route == resolve_route(DB, alert_id, employee_id)
        IN /\ employee_id \in Employees =>
                /\ r.ret = legal
                /\ legal => /\ r.db.alerts = [alerts EXCEPT ![alert_id].status = RESOLVED,
                                                            ![alert_id].resolved_at = TRUE]
                            /\ r.db.history = Append(history,
                                   [alert_id |-> alert_id, action |-> "resolved",
                                    performed_by |-> employee_id])
                /\ ~legal => r.db = DB
           /\ (route.status = 200) = (legal /\ employee_id \in Employees)
           /\ route.status # 200 => route.db = DB

\* An alert resolved by an employee from ACKNOWLEDGED, next to a PENDING alert;
\* resolve_alert fails on both and on a missing id.
C9_Witness ==
    \E i, j \in Ids :
        /\ alerts[i].status = RESOLVED /\ alerts[i].resolved_at /\ alerts[i].acknowledged_at
        /\ \E k \in 1..Len(history) :
              /\ history[k].alert_id = i
              /\ history[k].action = "resolved"
              /\ history[k].performed_by \in Employees
        /\ alerts[j].status = PENDING
        /\ \A employee_id \in Employees :
              /\ ~resolve_alert(DB, i, employee_id).ret
              /\ ~resolve_alert(DB, j, employee_id).ret
              /\ ~resolve_alert(DB, Len(alerts) + 1, employee_id).ret

\* C10: no step of sequentially executed ingestions, acknowledge and resolve
\* calls changes the status of an alert that is RESOLVED or PENDING, and no step
\* turns an alert that is not PENDING into a PENDING one; no alert row disappears.
C10_ResolvedAndPendingAreFinal ==
    [][ /\ Len(alerts') >= Len(alerts)
        /\ \A i \in Ids :
              /\ alerts[i].status \in {RESOLVED, PENDING}
                    => alerts'[i].status = alerts[i].status
              /\ alerts[i].status # PENDING => alerts'[i].status # PENDING
      ]_vars

\* A RESOLVED alert and a PENDING alert, each followed in the history by the
\* record of a later call, and a new alert raised for the resolved one's shelf.
C10_Witness ==
    \E i, j, n \in Ids :
        /\ alerts[i].status = RESOLVED
        /\ alerts[j].status = PENDING
        /\ n > i /\ alerts[n].shelf_name = alerts[i].shelf_name /\ alerts[n].status = ACTIVE
        /\ \E k, m \in 1..Len(history) :
              /\ k < m
              /\ history[k].alert_id = i /\ history[k].action \in {"resolved", "auto_resolved"}
              /\ history[m].alert_id = n /\ history[m].action = "created"
        /\ \E k, m \in 1..Len(history) :
              /\ k < m
              /\ history[k].alert_id = j /\ history[k].action = "created"
              /\ history[m].alert_id # j

\* C11: every step that commits a mutation of an alert commits with it the
\* history records of that mutation: a created alert gets exactly one created
\* record, written first; a status change to ACKNOWLEDGED or RESOLVED comes with
\* exactly one acknowledged / resolved or auto_resolved record; a change of any
\* other field comes with an updated record; a stock alert is mutated at most
\* once per step; records are written for existing alerts only; and in every
\* committed state each alert has exactly one created record.
C11_EveryMutationLogged ==
    [][ /\ Len(history') >= Len(history)
        /\ Len(alerts') >= Len(alerts)
        /\ \A k \in (Len(history) + 1)..Len(history') :
              history'[k].alert_id \in 1..Len(alerts')
        /\ \A i \in 1..Len(alerts') :
              LET new == {k \in (Len(history) + 1)..Len(history') : history'[k].alert_id = i}
                  n(action) == Cardinality({k \in new : history'[k].action = action})
              IN /\ CountRecords(history', i, "created") = 1
                 /\ IsStockTier(alerts'[i]) => Cardinality(new) <= 1
                 /\ IF i > Len(alerts)
                    THEN /\ n("created") = 1
                         /\ \A k \in new : history'[k].action \in {"created", "updated"}
                         /\ \A k \in new : history'[k].action = "updated" =>
                               \E c \in new : c < k /\ history'[c].action = "created"
                    ELSE /\ n("created") = 0
                         /\ alerts'[i] # alerts[i] => new # {}
                         /\ n("acknowledged")
                            = IF alerts'[i].status = ACKNOWLEDGED /\ alerts[i].status # ACKNOWLEDGED
                              THEN 1 ELSE 0
                         /\ n("resolved") + n("auto_resolved")
                            = IF alerts'[i].status = RESOLVED /\ alerts[i].status # RESOLVED
                              THEN 1 ELSE 0
                         /\ [alerts'[i] EXCEPT !.status = alerts[i].status,
                                               !.acknowledged_at = alerts[i].acknowledged_at,
                                               !.resolved_at = alerts[i].resolved_at] # alerts[i]
                            => n("updated") >= 1
      ]_vars

\* An alert that went through creation, an in-place update, acknowledge and
\* resolve, with one record of each.
C11_Witness ==
    \E i \in Ids :
        /\ alerts[i].status = RESOLVED
        /\ \A action \in {"created", "updated", "acknowledged", "resolved"} :
              CountRecords(history, i, action) = 1

\* C12: the committed sequence of history records only grows: after every
\* step the earlier sequence is a prefix of the later one, so no record is
\* modified or removed.
C12_HistoryAppendOnly ==
    [][ /\ Len(history') >= Len(history)
        /\ SubSeq(history', 1, Len(history)) = history ]_vars

\* A history of records of two alerts in which an alert's created record is
\* followed by later records of the same alert.
C12_Witness ==
    \E k, m, n \in 1..Len(history) :
        /\ k < m /\ m < n
        /\ history[k].action = "created"
        /\ history[m].alert_id = history[k].alert_id /\ history[m].action = "updated"
        /\ history[n].alert_id # history[k].alert_id

\* the labels of a snapshot are strings, as its input format says
StringLabels(j) == \A k \in 1..Len(j.items_detected) : IsStr(j.items_detected[k])

\* C13: the ingestion of a snapshot (a shelf id, string labels) whose shelf id
\* is not in the shelf catalog adds exactly one alert, MISPLACED_ITEM, PENDING,
\* priority LOW, no assignee, actual_product the comma-joined labels or null,
\* and exactly one history record, its created record; it changes no existing
\* alert (so neither the stock nor the misplacement path ran) and reports one
\* alert. Every PENDING alert of the store has that type, priority and assignee.
C13_UnknownShelfOnePendingAlert ==
    /\ \A json_data \in {j \in Snapshots \cup {Snap(Z9, 10, <<Hammer, Banana>>)} :
                            /\ j.shelf_number \notin Shelves
                            /\ j.shelf_number # <<>>
                            /\ StringLabels(j)},
          pick \in Picks :
          \A out \in {process_json_data(DB, json_data, pick)} :
              LET n == Len(alerts) + 1
                  labels == json_data.items_detected
              IN /\ Len(out.db.alerts) = n
                 /\ SubSeq(out.db.alerts, 1, Len(alerts)) = alerts
                 /\ out.db.alerts[n].id = n
                 /\ out.db.alerts[n].shelf_name = json_data.shelf_number
                 /\ out.db.alerts[n].alert_type = MISPLACED_ITEM
                 /\ out.db.alerts[n].status = PENDING
                 /\ out.db.alerts[n].priority = P_LOW
                 /\ out.db.alerts[n].assigned_staff_id = NoStaff
                 /\ out.db.alerts[n].actual_product
                    = CASE Len(labels) = 0 -> NullStr
                        [] Len(labels) = 1 -> labels[1]
                        [] OTHER -> labels[1] \o <<", ">> \o labels[2]
                 /\ out.db.history
                    = Append(history, [alert_id |-> n, action |-> "created",
                                       performed_by |-> NoStaff])
                 /\ out.result.success
                 /\ out.result.alerts_created = 1
    /\ \A i \in Ids :
          alerts[i].status = PENDING
          => /\ alerts[i].alert_type = MISPLACED_ITEM
             /\ alerts[i].priority = P_LOW
             /\ alerts[i].assigned_staff_id = NoStaff

\* The PENDING alert of an unknown shelf with a detected label, raised after
\* an alert of a known shelf that is still as it was created.
C13_Witness ==
    \E i, j \in Ids :
        /\ j < i
        /\ alerts[i].status = PENDING /\ alerts[i].shelf_name = Z9
        /\ alerts[i].actual_product = Hammer
        /\ CountRecords(history, i, "created") = 1
        /\ alerts[j].shelf_name \in Shelves /\ alerts[j].status = ACTIVE
        /\ \A k \in 1..Len(history) : history[k].alert_id = j => history[k].action = "created"

\* C14: for every integer fill in 0..100 the classifier yields OUT_OF_STOCK /
\* CRITICAL at 0, CRITICAL_STOCK / CRITICAL at 1..9, HIGH_STOCK / HIGH at 10..24,
\* MEDIUM_STOCK / MEDIUM at 25..49, LOW_STOCK / LOW at 50..74 and no alert at
\* 75..100; every stock alert of the store carries the tier of its fill, and an
\* ingestion leaves an ACTIVE stock alert of that tier exactly when fill < 75.
C14_ClassifierTiers ==
    LET tier(fill) ==
            CASE fill = 0 -> <<OUT_OF_STOCK, P_CRITICAL>>
              [] fill \in 1..9 -> <<CRITICAL_STOCK, P_CRITICAL>>
              [] fill \in 10..24 -> <<HIGH_STOCK, P_HIGH>>
              [] fill \in 25..49 -> <<MEDIUM_STOCK, P_MEDIUM>>
              [] fill \in 50..74 -> <<LOW_STOCK, P_LOW>>
              [] OTHER -> <<NoType, NoType>>
    IN /\ \A fill \in 0..100 :
             <<Classify(fill).alert_type, Classify(fill).priority>> = tier(fill)
       /\ \A i \in Ids :
             IsStockTier(alerts[i])
             => <<alerts[i].alert_type, alerts[i].priority>> = tier(alerts[i].fill_percentage)
       /\ \A empty_percentage \in 0..100, pick \in Picks :
             \A out \in {process_json_data(DB, Snap(A1, empty_percentage, <<>>), pick).db} :
                 LET fill == 100 - empty_percentage
                     active == {i \in 1..Len(out.alerts) :
                                   out.alerts[i].shelf_name = A1 /\ IsActiveStock(out.alerts[i])}
                 IN /\ (active # {}) = (fill <= 74)
                    /\ \A i \in active :
                          /\ out.alerts[i].fill_percentage = fill
                          /\ <<out.alerts[i].alert_type, out.alerts[i].priority>> = tier(fill)

\* A stock alert updated in place to a fill equal to a cut point: fill 25 is
\* MEDIUM_STOCK, not HIGH_STOCK.
C14_Witness ==
    \E i \in Ids :
        /\ alerts[i].fill_percentage = ThresholdHigh
        /\ alerts[i].alert_type = MEDIUM_STOCK /\ alerts[i].priority = P_MEDIUM
        /\ HasRecord(i, "updated")

\* C15: no step changes the assigned_staff_id, id or created_by of an existing
\* alert, whatever the shelf's staff assignment has become; an alert created
\* for a known shelf gets the employee assigned to the shelf at that moment, or
\* none; and an alert that a step only updates in place keeps its status.
C15_AssigneeFixedAtCreation ==
    [][ /\ Len(alerts') >= Len(alerts)
        /\ \A i \in Ids :
              /\ alerts'[i].assigned_staff_id = alerts[i].assigned_staff_id
              /\ alerts'[i].id = alerts[i].id
              /\ alerts'[i].created_by = alerts[i].created_by
              /\ LET new == {k \in (Len(history) + 1)..Len(history') :
                                history'[k].alert_id = i}
                 IN ( new # {} /\ \A k \in new : history'[k].action = "updated" )
                    => alerts'[i].status = alerts[i].status
        /\ \A i \in (Len(alerts) + 1)..Len(alerts') :
              alerts'[i].assigned_staff_id
              = IF \E e \in Employees : assignment[e] = alerts'[i].shelf_name
                THEN CHOOSE e \in Employees : assignment[e] = alerts'[i].shelf_name
                ELSE NoStaff
      ]_vars

\* An ACTIVE stock alert created while the shelf was assigned keeps its
\* assignee through an in-place update made after the assignment was removed:
\* the alert created next to that update has no assignee.
C15_Witness ==
    \E i, j \in Ids :
        /\ alerts[i].shelf_name = A1 /\ alerts[j].shelf_name = A1
        /\ IsActiveStock(alerts[i]) /\ alerts[i].assigned_staff_id \in Employees
        /\ alerts[j].assigned_staff_id = NoStaff
        /\ \A e \in Employees : assignment[e] # A1
        /\ \E k \in 1..(Len(history) - 1) :
              /\ history[k].alert_id = i /\ history[k].action = "updated"
              /\ history[k + 1].alert_id = j /\ history[k + 1].action = "created"

\* C16: the ingestion of a snapshot of a known shelf upserts a detected label
\* as a misplacement finding (an ACTIVE MISPLACED_ITEM alert of the shelf with
\* that actual_product gets a history record) if and only if the label is not
\* empty and, lower-cased, neither equals, nor contains, nor is contained in
\* the lower-cased name of any inventory item of the shelf.
C16_MisplacedIffNoFuzzyMatch ==
    LET labels == { <<"banana">>, <<"apple", "s">>, <<"Organic ", "Banana", "s", " Box">>,
                    <<"Hammer">>, <<"HAMMER">>, Marker, <<>> }
        match(label, name) ==
            \/ Lower(label) = Lower(name)
            \/ Contains(Lower(label), Lower(name))
            \/ Contains(Lower(name), Lower(label))
        expected(label, shelf) ==
            \E n \in 1..Len(Inventory) :
                Inventory[n].shelf_name = shelf /\ match(label, Inventory[n].product_name)
    IN \A json_data \in {Snap(shelf, 10, <<label>>) : shelf \in Shelves, label \in labels}
                        \cup {j \in Snapshots : j.shelf_number \in Shelves /\ StringLabels(j)},
          pick \in Picks :
          \A out \in {process_json_data(DB, json_data, pick).db} :
              \A n \in 1..Len(json_data.items_detected) :
                  LET label == json_data.items_detected[n]
                      upserted ==
                          \E i \in 1..Len(out.alerts) :
                              /\ out.alerts[i].shelf_name = json_data.shelf_number
                              /\ out.alerts[i].alert_type = MISPLACED_ITEM
                              /\ out.alerts[i].status = ACTIVE
                              /\ out.alerts[i].actual_product = label
                              /\ \E k \in (Len(history) + 1)..Len(out.history) :
                                    out.history[k].alert_id = i
                  IN upserted = ( label # <<>> /\ ~expected(label, json_data.shelf_number) )

\* Shelf A1 after the labels 'banana' and 'Hammer' were detected on it: Hammer
\* has a misplacement alert, banana has none, and the missing-items alert
\* raised with 'banana' lists only Apples, so banana matched 'Organic Bananas'.
C16_Witness ==
    /\ \E i \in Ids :
          /\ alerts[i].shelf_name = A1 /\ alerts[i].alert_type = MISPLACED_ITEM
          /\ alerts[i].actual_product = Hammer /\ alerts[i].status = ACTIVE
    /\ \E i \in Ids :
          /\ alerts[i].shelf_name = A1 /\ alerts[i].alert_type = MISPLACED_ITEM
          /\ alerts[i].actual_product = NullStr
          /\ alerts[i].expected_product = <<"Apple", "s">>
    /\ \A i \in Ids : alerts[i].actual_product # Banana

\* C17: the ingestion of a snapshot of a known shelf writes (creates or
\* updates) an alert carrying the shelf's missing-items title if and only if
\* items_detected is not empty and some inventory item of the shelf matches no
\* detected label (lower-cased substring, either direction); it then writes
\* exactly one such alert, however many items are missing; and with an empty
\* items_detected it writes no MISPLACED_ITEM alert at all.
C17_MissingItemsAlertIff ==
    LET labels == { <<"banana">>, <<"Hammer">>, <<"s">>, <<>>, Marker }
        found(label, name) ==
            \/ Contains(Lower(label), Lower(name))
            \/ Contains(Lower(name), Lower(label))
        missing(j) ==
            {n \in 1..Len(Inventory) :
                /\ Inventory[n].shelf_name = j.shelf_number
                /\ \A k \in 1..Len(j.items_detected) :
                      ~found(j.items_detected[k], Inventory[n].product_name)}
    IN \A json_data \in {Snap(shelf, 10, <<label>>) : shelf \in Shelves, label \in labels}
                        \cup {Snap(A1, 10, <<Banana, <<"apple", "s">>>>), Snap(B2, 10, <<>>)}
                        \cup {j \in Snapshots : j.shelf_number \in Shelves /\ StringLabels(j)},
          pick \in Picks :
          \A out \in {process_json_data(DB, json_data, pick).db} :
              LET written == {i \in 1..Len(out.alerts) :
                                 \E k \in (Len(history) + 1)..Len(out.history) :
                                     out.history[k].alert_id = i}
                  titled == {i \in written :
                                /\ out.alerts[i].alert_type = MISPLACED_ITEM
                                /\ out.alerts[i].title
                                   = <<"(cross) ", "MISSING ITEMS", ": Shelf ">>
                                     \o json_data.shelf_number}
                  cond == json_data.items_detected # <<>> /\ missing(json_data) # {}
              IN /\ (titled # {}) = cond
                 /\ Cardinality(titled) <= 1
                 /\ json_data.items_detected = <<>>
                    => \A i \in written : out.alerts[i].alert_type # MISPLACED_ITEM

\* One missing-items alert of shelf A1 that lists both of its inventory items
\* and was found again and updated by a later snapshot.
C17_Witness ==
    \E i \in Ids :
        /\ alerts[i].shelf_name = A1 /\ alerts[i].alert_type = MISPLACED_ITEM
        /\ alerts[i].actual_product = NullStr
        /\ alerts[i].expected_product = <<"Organic ", "Banana", "s", ", ", "Apple", "s">>
        /\ alerts[i].priority = P_LOW
        /\ HasRecord(i, "created") /\ HasRecord(i, "updated")

\* C18: every MISPLACED_ITEM alert of a known shelf is either the alert of a
\* misplaced label (actual_product set), with priority MEDIUM and never carrying
\* the missing-items title, or a missing-items alert (actual_product null,
\* the missing-items title), with priority LOW; and no step turns one into the
\* other: the misplacement title stays on the alert of a label, the
\* missing-items title on a missing-items alert.
C18_UpsertsDisjoint ==
    \A i \in Ids :
        ( alerts[i].alert_type = MISPLACED_ITEM /\ alerts[i].status # PENDING )
        => LET missingTitle == <<"(cross) ", "MISSING ITEMS", ": Shelf ">>
                               \o alerts[i].shelf_name
           IN \/ /\ alerts[i].actual_product # NullStr
                 /\ alerts[i].priority = P_MEDIUM
                 /\ alerts[i].title # missingTitle
              \/ /\ alerts[i].actual_product = NullStr
                 /\ alerts[i].priority = P_LOW
                 /\ alerts[i].title = missingTitle

\* C19: every call of process_json_data either reports success with
\* alerts_created equal to the number of distinct alerts the call created or
\* updated in the committed store and alerts listing exactly those, or reports
\* failure with a non-empty error, alerts_created = 0, no alerts and the store
\* as it was.
C19_ResultCountsWrittenAlerts ==
    \A json_data \in Snapshots, pick \in Picks :
        \A out \in {process_json_data(DB, json_data, pick)} :
            LET written == {i \in 1..Len(out.db.alerts) :
                               \E k \in (Len(history) + 1)..Len(out.db.history) :
                                   /\ out.db.history[k].alert_id = i
                                   /\ out.db.history[k].action \in {"created", "updated"}}
            IN IF out.result.success
               THEN /\ out.result.alerts_created = Cardinality(written)
                    /\ {out.result.alerts[k] : k \in 1..Len(out.result.alerts)} = written
               ELSE /\ out.result.error # ""
                    /\ out.result.alerts_created = 0
                    /\ out.result.alerts = <<>>
                    /\ out.db = DB

\* C20: bulk acknowledge and bulk resolve, called by a known employee with a
\* non-empty id list, treat the ids one by one in the order of the list: the
\* store after the call is the store after the single transitions applied in
\* that order, failed_alerts lists in order the ids whose transition was
\* refused, an id that is refused neither prevents nor undoes the transition
\* of another id, the reply has success = true, and
\* successful_count + |failed_alerts| = total_requested = the length of the
\* list; an ACTIVE alert listed twice for bulk acknowledge is counted once as
\* a success and once as failed.
C20_BulkIdsIndependent ==
    \A alert_ids \in IdLists \ {<<>>}, employee_id \in Employees :
        LET n == Len(alert_ids)
            Failed(s1, s2) == (IF s1.ret THEN <<>> ELSE <<alert_ids[1]>>)
                              \o (IF n = 2 /\ ~s2.ret THEN <<alert_ids[2]>> ELSE <<>>)
            Reply(r, s1, s2) ==
                /\ r.status = 200
                /\ r.success
                /\ r.total_requested = n
                /\ r.successful_count + Len(r.failed_alerts) = r.total_requested
                /\ r.failed_alerts = Failed(s1, s2)
                /\ r.db = IF n = 2 THEN s2.db ELSE s1.db
            Legal(i, from) == i \in 1..Len(alerts) /\ alerts[i].status \in from
        IN /\ \A r \in {bulk_acknowledge_route(DB, alert_ids, employee_id)},
                 s1 \in {acknowledge_alert(DB, alert_ids[1], employee_id)} :
                 \A s2 \in {acknowledge_alert(s1.db, alert_ids[n], employee_id)} :
                     /\ Reply(r, s1, s2)
                     /\ \A k \in 1..n :
                            IF Legal(alert_ids[k], {ACTIVE})
                            THEN r.db.alerts[alert_ids[k]].status = ACKNOWLEDGED
                            ELSE /\ \E m \in 1..Len(r.failed_alerts) :
                                        r.failed_alerts[m] = alert_ids[k]
                                 /\ alert_ids[k] \in 1..Len(alerts)
                                        => r.db.alerts[alert_ids[k]] = alerts[alert_ids[k]]
                     /\ (n = 2 /\ alert_ids[1] = alert_ids[2] /\ Legal(alert_ids[1], {ACTIVE}))
                            => /\ r.successful_count = 1
                               /\ r.failed_alerts = <<alert_ids[1]>>
           /\ \A r \in {bulk_resolve_route(DB, alert_ids, employee_id)},
                 s1 \in {resolve_alert(DB, alert_ids[1], employee_id)} :
                 \A s2 \in {resolve_alert(s1.db, alert_ids[n], employee_id)} :
                     /\ Reply(r, s1, s2)
                     /\ \A k \in 1..n :
                            IF Legal(alert_ids[k], {ACTIVE, ACKNOWLEDGED})
                            THEN r.db.alerts[alert_ids[k]].status = RESOLVED
                            ELSE /\ \E m \in 1..Len(r.failed_alerts) :
                                        r.failed_alerts[m] = alert_ids[k]
                                 /\ alert_ids[k] \in 1..Len(alerts)
                                        => r.db.alerts[alert_ids[k]] = alerts[alert_ids[k]]

\* a store reached by bulk requests in which a bulk acknowledge of an ACTIVE
\* alert listed after a RESOLVED one succeeds for the one and fails for the other
C20_Witness ==
    \E i, j \in 1..Len(alerts) :
        /\ alerts[i].status = RESOLVED
        /\ alerts[j].status = ACTIVE
        /\ \E k \in 1..Len(history) : history[k].action = "acknowledged"
        /\ bulk_acknowledge_route(DB, <<i, j>>, "E1").successful_count = 1
        /\ bulk_acknowledge_route(DB, <<i, j>>, "E1").failed_alerts = <<i>>
        /\ bulk_acknowledge_route(DB, <<j, j>>, "E1").failed_alerts = <<j>>

C22_FindingErrorKeepsOtherFindings ==
    \A data \in Bodies, pick \in Picks :
        (data.missing = {} /\ ~StringLabels(data.fields)) =>
            \A out \in {process_json_data(DB, data.fields, pick)},
               rest \in {process_json_data(DB,
                             [data.fields EXCEPT !.items_detected = SelectSeq(@, IsStr)],
                             pick)} :
                /\ out.result.success
                /\ out.result.errors # <<>>
                /\ out.db = rest.db

\* C23: when acknowledge and resolve calls of several sessions interleave
\* between the read of the status and the commit, an alert whose resolved
\* record is committed has status RESOLVED (a later commit never puts it
\* back to ACKNOWLEDGED), and no alert has more than one acknowledged record.
C23_ConcurrentLifecycleSafe ==
    \A i \in 1..Len(alerts) :
        /\ (\E k \in 1..Len(history) :
                history[k].alert_id = i /\ history[k].action = "resolved")
              => alerts[i].status = RESOLVED
        /\ Cardinality({k \in 1..Len(history) :
                           history[k].alert_id = i /\ history[k].action = "acknowledged"}) <= 1

\* C24: in every state reached by ingestions, acknowledge and resolve calls
\* that run one at a time, status and timestamps agree: a RESOLVED alert has
\* resolved_at set; an ACKNOWLEDGED alert has acknowledged_at set and
\* resolved_at unset; an ACTIVE or PENDING alert has neither set.
C24_StatusMatchesTimestamps ==
    \A i \in 1..Len(alerts) :
        /\ alerts[i].status \in {ACTIVE, ACKNOWLEDGED, RESOLVED, PENDING}
        /\ alerts[i].status = RESOLVED => alerts[i].resolved_at
        /\ alerts[i].status = ACKNOWLEDGED =>
              alerts[i].acknowledged_at /\ ~alerts[i].resolved_at
        /\ alerts[i].status \in {ACTIVE, PENDING} =>
              ~alerts[i].acknowledged_at /\ ~alerts[i].resolved_at

\* an acknowledged alert next to an alert resolved by a normal-fill snapshot
\* without ever being acknowledged
C24_Witness ==
    \E i, j \in 1..Len(alerts) :
        /\ alerts[i].status = ACKNOWLEDGED /\ alerts[i].acknowledged_at
        /\ alerts[j].status = RESOLVED /\ ~alerts[j].acknowledged_at
        /\ \E k \in 1..Len(history) :
              history[k].alert_id = j /\ history[k].action = "auto_resolved"

\* C25: the ingestion of a snapshot for shelf S leaves every alert of another
\* shelf, and every alert of S that is not ACTIVE when the ingestion starts,
\* with all its fields as they were, and writes no history record for it; the
\* history records written before stay as they were.
C25_IngestionTouchesOnlyActiveAlertsOfShelf ==
    \A json_data \in StaffSnapshots, pick \in Picks :
        \A out \in {process_json_data(DB, json_data, pick)} :
            /\ Len(out.db.alerts) >= Len(alerts)
            /\ SubSeq(out.db.history, 1, Len(history)) = history
            /\ \A i \in 1..Len(alerts) :
                  (alerts[i].shelf_name # json_data.shelf_number \/ alerts[i].status # ACTIVE)
                    => /\ out.db.alerts[i] = alerts[i]
                       /\ \A k \in (Len(history) + 1)..Len(out.db.history) :
                             out.db.history[k].alert_id # i

\* an acknowledged stock alert of A1 and an alert of another shelf, both older
\* than an ACTIVE stock alert that a later ingestion for A1 created
C25_Witness ==
    \E i, j, n \in 1..Len(alerts) :
        /\ alerts[i].shelf_name = A1 /\ alerts[i].status = ACKNOWLEDGED
        /\ alerts[i].alert_type \in StockTypes
        /\ alerts[j].shelf_name # A1
        /\ i < n /\ j < n
        /\ alerts[n].shelf_name = A1 /\ alerts[n].status = ACTIVE
        /\ alerts[n].alert_type \in StockTypes
        /\ \E k, m \in 1..Len(history) :
              /\ k < m
              /\ history[k].alert_id = i /\ history[k].action = "acknowledged"
              /\ history[m].alert_id = n /\ history[m].action = "created"

\* C26: when a known shelf has an ACKNOWLEDGED stock alert and no ACTIVE one,
\* the ingestion of a low-fill snapshot (fill < 75) for it adds one ACTIVE
\* stock alert with the next id and leaves the acknowledged alert as it was;
\* the ingestion of a normal-fill snapshot (fill >= 75) adds no stock alert,
\* writes no auto_resolved record and leaves the acknowledged alert
\* ACKNOWLEDGED. An alert that carries an acknowledged record is ACKNOWLEDGED,
\* or RESOLVED by a resolve_alert call (a resolved record, no auto_resolved one).
C26_AcknowledgedStockAlertIsLeftAlone ==
    /\ \A i \in 1..Len(alerts) :
          (\E k \in 1..Len(history) :
               history[k].alert_id = i /\ history[k].action = "acknowledged")
            => \/ alerts[i].status = ACKNOWLEDGED
               \/ /\ alerts[i].status = RESOLVED
                  /\ \E k \in 1..Len(history) :
                        history[k].alert_id = i /\ history[k].action = "resolved"
                  /\ \A k \in 1..Len(history) :
                        history[k].alert_id = i => history[k].action # "auto_resolved"
    /\ \A json_data \in StaffSnapshots, pick \in Picks, i \in 1..Len(alerts) :
          ( /\ json_data.shelf_number \in Shelves
            /\ alerts[i].shelf_name = json_data.shelf_number
            /\ alerts[i].alert_type \in StockTypes
            /\ alerts[i].status = ACKNOWLEDGED
            /\ ActiveStockAlerts(alerts, json_data.shelf_number) = {} )
          => \A out \in {process_json_data(DB, json_data, pick).db} :
                LET new == {n \in (Len(alerts) + 1)..Len(out.alerts) :
                               out.alerts[n].alert_type \in StockTypes}
                IN /\ out.alerts[i] = alerts[i]
                   /\ \A k \in (Len(history) + 1)..Len(out.history) :
                         out.history[k].action # "auto_resolved"
                   /\ IF 100 - json_data.empty_percentage < 75
                      THEN /\ new = {Len(alerts) + 1}
                           /\ out.alerts[Len(alerts) + 1].status = ACTIVE
                           /\ out.alerts[Len(alerts) + 1].id = Len(alerts) + 1
                           /\ out.alerts[Len(alerts) + 1].shelf_name = json_data.shelf_number
                      ELSE new = {}

\* an acknowledged stock alert of A1 that is still ACKNOWLEDGED after a
\* low-fill snapshot created a second stock alert for A1 and a normal-fill
\* snapshot auto-resolved that second alert
C26_Witness ==
    \E i, n \in 1..Len(alerts) :
        /\ i < n
        /\ alerts[i].shelf_name = A1 /\ alerts[n].shelf_name = A1
        /\ alerts[i].alert_type \in StockTypes /\ alerts[n].alert_type \in StockTypes
        /\ alerts[i].status = ACKNOWLEDGED
        /\ alerts[n].status = RESOLVED
        /\ \E k, m \in 1..Len(history) :
              /\ k < m
              /\ history[k].alert_id = i /\ history[k].action = "acknowledged"
              /\ history[m].alert_id = n /\ history[m].action = "auto_resolved"

\* C27: every alert of a stock type, whatever its status and however often it
\* was updated in place, has the priority of its type (OUT_OF_STOCK and
\* CRITICAL_STOCK: CRITICAL, HIGH_STOCK: HIGH, MEDIUM_STOCK: MEDIUM,
\* LOW_STOCK: LOW), the type the classifier gives for its stored
\* fill_percentage, and fill_percentage + empty_percentage = 100.
C27_StockAlertFieldsConsistent ==
    \A i \in 1..Len(alerts) :
        alerts[i].alert_type \in StockTypes =>
            /\ alerts[i].priority =
                  (CASE alerts[i].alert_type \in {OUT_OF_STOCK, CRITICAL_STOCK} -> P_CRITICAL
                     [] alerts[i].alert_type = HIGH_STOCK -> P_HIGH
                     [] alerts[i].alert_type = MEDIUM_STOCK -> P_MEDIUM
                     [] alerts[i].alert_type = LOW_STOCK -> P_LOW)
            /\ alerts[i].alert_type = Classify(alerts[i].fill_percentage).alert_type
            /\ alerts[i].fill_percentage + alerts[i].empty_percentage = 100

\* a stock alert created and then updated in place that now is of the most
\* severe tier but one
C27_Witness ==
    \E i \in 1..Len(alerts) :
        /\ alerts[i].alert_type = CRITICAL_STOCK /\ alerts[i].priority = P_CRITICAL
        /\ alerts[i].fill_percentage = 5 /\ alerts[i].empty_percentage = 95
        /\ \E k \in 1..Len(history) :
              history[k].alert_id = i /\ history[k].action = "updated"

\* C28: under calls that run one at a time, the history records of every alert,
\* in the order they were written, begin with a created record and hold no
\* second one, hold at most one acknowledged record and at most one resolving
\* record (resolved or auto_resolved); an acknowledged record comes before the
\* resolving record, and the resolving record is the alert's last record.
C28_HistoryFollowsLifecycle ==
    \A i \in 1..Len(alerts) :
        LET own == {k \in 1..Len(history) : history[k].alert_id = i}
            of(actions) == {k \in own : history[k].action \in actions}
            closing == of({"resolved", "auto_resolved"})
        IN /\ own # {}
           /\ \A k \in own : (history[k].action = "created") = (\A m \in own : k <= m)
           /\ Cardinality(of({"acknowledged"})) <= 1
           /\ Cardinality(closing) <= 1
           /\ \A k \in closing : \A m \in own : m <= k

\* an alert created, acknowledged and resolved, in that order, and a later
\* alert whose records all come after the first alert's resolved record
C28_Witness ==
    \E i, n \in 1..Len(alerts) :
        /\ i # n
        /\ \E c, a, r \in 1..Len(history) :
              /\ c < a /\ a < r
              /\ history[c].alert_id = i /\ history[c].action = "created"
              /\ history[a].alert_id = i /\ history[a].action = "acknowledged"
              /\ history[r].alert_id = i /\ history[r].action = "resolved"
              /\ \A k \in 1..Len(history) : history[k].alert_id = n => r < k

\* C29: an ingestion changes the status of no MISPLACED_ITEM alert; the only
\* status change it makes is ACTIVE -> RESOLVED on a shelf-level stock alert of
\* the snapshot's shelf. An ACTIVE misplacement alert whose label the snapshot
\* does not contain keeps every field, and so does an ACTIVE missing-items
\* alert when the snapshot has labels and every expected item is found.
C29_IngestionKeepsMisplacementStatus ==
    \A json_data \in StaleSnapshots, pick \in Picks :
        \A out \in {process_json_data(DB, json_data, pick).db} :
            \A i \in 1..Len(alerts) :
                /\ alerts[i].alert_type = MISPLACED_ITEM
                      => out.alerts[i].status = alerts[i].status
                /\ out.alerts[i].status # alerts[i].status
                      => /\ alerts[i].status = ACTIVE
                         /\ out.alerts[i].status = RESOLVED
                         /\ alerts[i].alert_type \in StockTypes
                         /\ alerts[i].rack_name = NullStr
                         /\ alerts[i].shelf_name = json_data.shelf_number
                /\ ( /\ alerts[i].alert_type = MISPLACED_ITEM
                     /\ alerts[i].status = ACTIVE
                     /\ alerts[i].actual_product # NullStr
                     /\ \A k \in 1..Len(json_data.items_detected) :
                           json_data.items_detected[k] # alerts[i].actual_product )
                      => out.alerts[i] = alerts[i]
                /\ ( /\ alerts[i].alert_type = MISPLACED_ITEM
                     /\ alerts[i].status = ACTIVE
                     /\ Contains(alerts[i].title, Marker)
                     /\ json_data.items_detected # <<>>
                     /\ MissingItems(InventoryFor(json_data.shelf_number),
                                     json_data.items_detected) = <<>> )
                      => out.alerts[i] = alerts[i]

\* shelf B2 with an ACTIVE misplacement alert of 'banana' and an ACTIVE
\* missing-items alert, both older than a stock alert of B2 that a normal-fill
\* snapshot auto-resolved; the snapshot that reports only the expected label
\* changes nothing
C29_Witness ==
    \E i, j, n \in 1..Len(alerts) :
        /\ alerts[i].shelf_name = B2 /\ alerts[i].status = ACTIVE
        /\ alerts[i].alert_type = MISPLACED_ITEM /\ alerts[i].actual_product = Banana
        /\ alerts[j].shelf_name = B2 /\ alerts[j].status = ACTIVE
        /\ alerts[j].alert_type = MISPLACED_ITEM /\ Contains(alerts[j].title, Marker)
        /\ i < n /\ j < n
        /\ alerts[n].shelf_name = B2 /\ alerts[n].alert_type \in StockTypes
        /\ alerts[n].status = RESOLVED
        /\ \E k \in 1..Len(history) :
              history[k].alert_id = n /\ history[k].action = "auto_resolved"
        /\ \A pick \in Picks : process_json_data(DB, Snap(B2, 10, <<Hammer>>), pick).db = DB

\* C30: every misplacement alert that an ingestion for a known shelf S creates
\* or updates for a label has correct_location set exactly when the name of
\* some inventory item of the catalog contains the label, letter case
\* ignored; it is then the shelf of the first such item; and it is never S.
C30_CorrectLocationIsFirstMatch ==
    \A json_data \in LocSnapshots, pick \in Picks :
        \A out \in {process_json_data(DB, json_data, pick).db} :
            \A i \in 1..Len(out.alerts) :
                ( /\ json_data.shelf_number \in Shelves
                  /\ out.alerts[i].alert_type = MISPLACED_ITEM
                  /\ out.alerts[i].actual_product # NullStr
                  /\ \E k \in (Len(history) + 1)..Len(out.history) :
                        out.history[k].alert_id = i )
                => LET label == out.alerts[i].actual_product
                       hits == {n \in 1..Len(Inventory) :
                                   Contains(Lower(Inventory[n].product_name), Lower(label))}
                   IN /\ (out.alerts[i].correct_location # NullStr) = (hits # {})
                      /\ hits # {} =>
                            out.alerts[i].correct_location
                            = Inventory[CHOOSE n \in hits : \A m \in hits : n <= m].shelf_name
                      /\ out.alerts[i].correct_location # json_data.shelf_number

====
